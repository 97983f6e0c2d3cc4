---------------------------- MODULE Workbench_proofs ----------------------------
(***************************************************************************)
(* The panes of an open session.  A terminal panel has one socket at most and   *)
(* leaves none behind.  What the other panes show ends with what the server      *)
(* has: the requests are a queue, each pane has an invariant that says what its   *)
(* answers will make of what it shows, and the settled state is the empty queue.  *)
(***************************************************************************)
EXTENDS Workbench, SequenceLemmas, FiniteSetTheorems

Socket == [state : {"connecting", "open", "closing", "closed"}, mine : BOOLEAN, pty : Int]

Used(s) == sockets[s].state \in {"connecting", "open"}

\* The socket in use is the hook's; a retry is only due while the hook has none,
\* and only for a panel that is shown; a socket that was left is closing or closed.
SocketInv ==
  /\ sockets \in Seq(Socket) /\ size \in Int
  /\ wsRef \in 0..Len(sockets)
  /\ \A s \in DOMAIN sockets : /\ Used(s) => s = wsRef
                               /\ sockets[s].state = "closing" => ~sockets[s].mine
  /\ panel # "shown" => wsRef = 0 /\ ~retryTimer
  /\ retryTimer => wsRef = 0

LEMMA SocketsStart == Init => SocketInv
  BY DEF Init, TerminalInit, SocketInv

LEMMA SocketShape ==
  ASSUME SocketInv
  PROVE  /\ Len(sockets) \in Nat /\ DOMAIN sockets = 1..Len(sockets)
         /\ \A s \in DOMAIN sockets : sockets[s] \in Socket
<1>1. sockets \in Seq(Socket)
  BY DEF SocketInv
<1> QED BY <1>1, LenProperties, ElementOfSeq

\* One socket becomes another.
LEMMA OneChanges ==
  ASSUME SocketInv, NEW s \in DOMAIN sockets, NEW r \in Socket,
         sockets' = [sockets EXCEPT ![s] = r]
  PROVE  /\ sockets' \in Seq(Socket) /\ Len(sockets') = Len(sockets)
         /\ DOMAIN sockets' = DOMAIN sockets
         /\ \A t \in DOMAIN sockets : sockets'[t] = IF t = s THEN r ELSE sockets[t]
<1>1. s \in 1..Len(sockets) /\ sockets \in Seq(Socket)
  BY SocketShape DEF SocketInv
<1> QED BY <1>1, SocketShape, ExceptSeq

\* connect, when the hook has no socket and no retry is due any more.
LEMMA ConnectKeeps ==
  ASSUME SocketInv, wsRef = 0, connect, ~retryTimer', panel' = "shown", size' = size
  PROVE  SocketInv'
<1> DEFINE new == [state |-> "connecting", mine |-> TRUE, pty |-> 0]
<1>1. sockets' = Append(sockets, new) /\ wsRef' = Len(sockets) + 1
  BY DEF connect, IsOpen
<1>2. new \in Socket /\ sockets \in Seq(Socket)
  BY DEF Socket, SocketInv
<1>3. /\ sockets' \in Seq(Socket) /\ Len(sockets') = Len(sockets) + 1
      /\ DOMAIN sockets' = 1..(Len(sockets) + 1)
      /\ sockets'[Len(sockets) + 1] = new
      /\ \A t \in DOMAIN sockets : sockets'[t] = sockets[t]
  BY <1>1, <1>2, SocketShape, LenProperties
<1>4. ASSUME NEW t \in DOMAIN sockets'
      PROVE  /\ Used(t)' => t = wsRef'
             /\ sockets'[t].state = "closing" => ~sockets'[t].mine
  <2>1. CASE t = Len(sockets) + 1
    BY <1>1, <1>3, <2>1
  <2>2. CASE t \in DOMAIN sockets
    <3>1. t # 0 /\ sockets'[t] = sockets[t]
      BY <1>3, <2>2, SocketShape
    <3> QED BY <2>2, <3>1 DEF SocketInv, Used
  <2> QED BY <1>3, <2>1, <2>2, SocketShape
<1>5. wsRef' \in 0..Len(sockets')
  BY <1>1, <1>3, SocketShape
<1> QED BY <1>3, <1>4, <1>5 DEF SocketInv

LEMMA OpenKeeps ==
  ASSUME SocketInv, onopen
  PROVE  SocketInv'
<1>1. PICK s \in DOMAIN sockets : /\ sockets[s].state = "connecting"
                                  /\ sockets' = [sockets EXCEPT ![s].state = "open"]
  BY DEF onopen
<1>2. UNCHANGED <<panel, wsRef, retryTimer, size>>
  BY DEF onopen
<1> DEFINE r == [sockets[s] EXCEPT !.state = "open"]
<1>3. r \in Socket /\ r.state = "open" /\ s = wsRef
  BY <1>1, SocketShape DEF Socket, SocketInv, Used
<1>4. sockets' = [sockets EXCEPT ![s] = r]
  BY <1>1
<1> HIDE DEF r
<1> QED BY <1>2, <1>3, <1>4, OneChanges DEF SocketInv, Used

LEMMA CloseEventKeeps ==
  ASSUME SocketInv, onclose
  PROVE  SocketInv'
<1>1. PICK s \in DOMAIN sockets :
        /\ sockets[s].state \in {"connecting", "open", "closing"}
        /\ sockets' = [sockets EXCEPT ![s].state = "closed"]
        /\ IF ~sockets[s].mine THEN UNCHANGED hook
           ELSE /\ wsRef' = 0 /\ (retryTimer' = TRUE \/ retryTimer' = retryTimer)
  BY DEF onclose
<1>2. UNCHANGED <<panel, size>>
  BY DEF onclose
<1> DEFINE r == [sockets[s] EXCEPT !.state = "closed"]
<1>3. r \in Socket /\ r.state = "closed"
  BY <1>1, SocketShape DEF Socket
<1>4. sockets' = [sockets EXCEPT ![s] = r]
  BY <1>1
<1> HIDE DEF r
<1>5. /\ sockets' \in Seq(Socket) /\ Len(sockets') = Len(sockets) /\ DOMAIN sockets' = DOMAIN sockets
      /\ \A t \in DOMAIN sockets : sockets'[t] = IF t = s THEN r ELSE sockets[t]
  BY <1>3, <1>4, OneChanges
<1>6. \A t \in DOMAIN sockets' : Used(t)' => t = wsRef /\ t # s
  BY <1>3, <1>5 DEF SocketInv, Used
<1>7. \A t \in DOMAIN sockets' : sockets'[t].state = "closing" => ~sockets'[t].mine
  BY <1>3, <1>5 DEF SocketInv
<1>8. CASE ~sockets[s].mine
  BY <1>1, <1>2, <1>5, <1>6, <1>7, <1>8 DEF SocketInv, hook
<1>9. CASE sockets[s].mine
  <2>1. s = wsRef /\ wsRef # 0
    BY <1>1, <1>9, SocketShape DEF SocketInv, Used
  <2>2. panel' = "shown"
    BY <1>2, <2>1 DEF SocketInv
  <2>3. wsRef' = 0 /\ \A t \in DOMAIN sockets' : ~Used(t)'
    BY <1>1, <1>6, <1>9, <2>1
  <2> QED BY <1>2, <1>5, <1>7, <2>2, <2>3, SocketShape DEF SocketInv
<1> QED BY <1>8, <1>9

\* The cleanup of the panel: its socket is closing, the others were.
LEMMA CleanupKeeps ==
  ASSUME SocketInv, CloseTerminal
  PROVE  SocketInv'
<1>1. /\ wsRef' = 0 /\ ~retryTimer' /\ size' = size
      /\ sockets' = [s \in DOMAIN sockets |->
                       [sockets[s] EXCEPT !.mine = FALSE, !.state = Left(s)]]
  BY DEF CloseTerminal
<1>2. \A s \in DOMAIN sockets : Left(s) \in {"closing", "closed"}
  BY SocketShape DEF Left, SocketInv, Used, Socket
<1>3. \A s \in DOMAIN sockets : /\ sockets'[s] \in Socket /\ ~sockets'[s].mine
                                /\ sockets'[s].state \in {"closing", "closed"}
  BY <1>1, <1>2, SocketShape DEF Socket
<1>4. Len(sockets) \in Nat /\ sockets' \in [1..Len(sockets) -> Socket]
  BY <1>1, <1>3, SocketShape
<1>5. sockets' \in Seq(Socket)
  BY <1>4, SeqDef
<1>6. Len(sockets') \in Nat /\ DOMAIN sockets' = DOMAIN sockets
  BY <1>1, <1>5, LenProperties
<1>7. ASSUME NEW s \in DOMAIN sockets'
      PROVE  ~Used(s)' /\ ~sockets'[s].mine
  BY <1>3, <1>6 DEF Used
<1>8. size' \in Int /\ wsRef' = 0 /\ ~retryTimer'
  BY <1>1 DEF SocketInv
<1>9. wsRef' \in 0..Len(sockets')
  BY <1>6, <1>8
<1> QED BY <1>5, <1>7, <1>8, <1>9 DEF SocketInv

LEMMA FitKeeps ==
  ASSUME SocketInv, FrameFires
  PROVE  SocketInv'
<1>1. UNCHANGED <<panel, wsRef, retryTimer, size>>
  BY DEF FrameFires, hook
<1>2. CASE ~IsOpen(wsRef)
  <2>1. sockets' = sockets
    BY <1>2 DEF FrameFires, Fitted
  <2> QED BY <1>1, <2>1 DEF SocketInv, Used
<1>3. CASE IsOpen(wsRef)
  <2> DEFINE r == [sockets[wsRef] EXCEPT !.pty = size]
  <2>1. wsRef \in DOMAIN sockets
    BY <1>3, SocketShape DEF IsOpen, SocketInv
  <2>2. r \in Socket /\ r.state = sockets[wsRef].state /\ r.mine = sockets[wsRef].mine
    BY <2>1, SocketShape DEF Socket, SocketInv
  <2>3. sockets' = [sockets EXCEPT ![wsRef] = r]
    BY <1>3 DEF FrameFires, Fitted
  <2> HIDE DEF r
  <2>4. /\ sockets' \in Seq(Socket) /\ Len(sockets') = Len(sockets) /\ DOMAIN sockets' = DOMAIN sockets
        /\ \A t \in DOMAIN sockets : sockets'[t] = IF t = wsRef THEN r ELSE sockets[t]
    BY <2>1, <2>2, <2>3, OneChanges
  <2>5. \A t \in DOMAIN sockets : /\ sockets'[t].state = sockets[t].state
                                  /\ sockets'[t].mine = sockets[t].mine
    BY <2>2, <2>4
  <2> QED BY <1>1, <2>4, <2>5 DEF SocketInv, Used
<1> QED BY <1>2, <1>3

LEMMA SocketsKept ==
  ASSUME SocketInv, [Next]_vars
  PROVE  SocketInv'
<1>1. CASE UNCHANGED <<sockets, wsRef, retryTimer, panel, size>>
  BY <1>1 DEF SocketInv, Used
<1>2. CASE UNCHANGED terminalVars
  BY <1>1, <1>2 DEF terminalVars
<1>3. CASE TerminalNext
  <2>1. CASE RetryFires
    <3>1. wsRef = 0 /\ panel = "shown" /\ ~retryTimer' /\ UNCHANGED <<panel, size>>
      BY <2>1 DEF RetryFires, SocketInv
    <3>2. CASE disposed
      BY <2>1, <3>1, <3>2 DEF RetryFires, SocketInv, Used
    <3>3. CASE ~disposed
      BY <2>1, <3>1, <3>3, ConnectKeeps DEF RetryFires
    <3> QED BY <3>2, <3>3
  <2>2. CASE OpenTerminal
    <3>1. wsRef = 0
      BY <2>2 DEF OpenTerminal, SocketInv
    <3> QED BY <2>2, <3>1 DEF OpenTerminal, SocketInv, Used
  <2>3. CASE loadXterm
    <3>1. wsRef = 0 /\ ~retryTimer
      BY <2>3 DEF loadXterm, SocketInv
    <3>2. connect /\ ~retryTimer' /\ panel' = "shown" /\ size' = size
      BY <2>3, <3>1 DEF loadXterm
    <3> QED BY <3>1, <3>2, ConnectKeeps
  <2>4. CASE ResizeContainer
    BY <2>4 DEF ResizeContainer, hook, SocketInv, Used
  <2> QED BY <1>3, <2>1, <2>2, <2>3, <2>4, OpenKeeps, CloseEventKeeps, CleanupKeeps, FitKeeps
          DEF TerminalNext
<1> QED BY <1>2, <1>3 DEF Next, vars

\* useTerminal: connect, disconnect and the retry never leave two sockets in use, and
\* none once the panel is closed.
THEOREM SocketIsSingle == Spec => []OneSocket
<1>1. ASSUME SocketInv
      PROVE  OneSocket
  <2> DEFINE U == {s \in DOMAIN sockets : sockets[s].state \in {"connecting", "open"}}
  <2>1. U \subseteq {wsRef}
    BY <1>1 DEF SocketInv, Used
  <2>2. IsFiniteSet({wsRef}) /\ Cardinality({wsRef}) = 1
    BY FS_Singleton
  <2>3. Cardinality(U) <= 1
    BY <2>1, <2>2, FS_Subset
  <2>4. panel = "closed" => \A s \in DOMAIN sockets : sockets[s].state \in {"closing", "closed"}
    BY <1>1, SocketShape DEF SocketInv, Used, Socket
  <2> QED BY <2>3, <2>4 DEF OneSocket
<1> QED BY <1>1, SocketsStart, SocketsKept, PTL DEF Spec

-----------------------------------------------------------------------------
(* The queue of requests.                                                   *)

IsCall(c) == c = [op |-> c.op, answer |-> c.answer]
Queue == calls \in Seq(Range(calls)) /\ \A k \in DOMAIN calls : IsCall(calls[k])

\* The first m requests are answered, the others are not; none has failed so far.
Served(m) == m \in 0..Len(calls) /\ \A k \in DOMAIN calls : calls[k].answer = Waiting <=> k > m
Reliable == ~missed /\ \A k \in DOMAIN calls : calls[k].answer # Failed

LEMMA QueueShape ==
  ASSUME Queue
  PROVE  /\ Len(calls) \in Nat /\ DOMAIN calls = 1..Len(calls)
         /\ calls = <<>> <=> Len(calls) = 0
  BY LenProperties, EmptySeq DEF Queue

\* A sequence of requests is a queue.
LEMMA IsQueue ==
  ASSUME NEW S, calls' \in Seq(S), \A k \in 1..Len(calls') : IsCall(calls'[k])
  PROVE  Queue'
<1>1. Len(calls') \in Nat /\ calls' \in [1..Len(calls') -> S] /\ DOMAIN calls' = 1..Len(calls')
  BY LenProperties
<1>2. calls' \in [1..Len(calls') -> Range(calls')]
  BY <1>1 DEF Range
<1>3. calls' \in Seq(Range(calls'))
  BY <1>1, <1>2, SeqDef
<1> QED BY <1>1, <1>3 DEF Queue, IsCall

LEMMA AfterSending ==
  ASSUME Queue, NEW S, NEW ops \in Seq(S), calls' = calls \o Sent(ops)
  PROVE  /\ Queue' /\ Len(calls') = Len(calls) + Len(ops)
         /\ \A k \in 1..Len(calls) : calls'[k] = calls[k]
         /\ \A k \in 1..Len(ops) : calls'[Len(calls) + k] = [op |-> ops[k], answer |-> Waiting]
<1> DEFINE T == Range(calls) \cup {[op |-> o, answer |-> Waiting] : o \in S}
<1>1. Len(ops) \in Nat /\ DOMAIN ops = 1..Len(ops) /\ \A k \in 1..Len(ops) : ops[k] \in S
  BY LenProperties, ElementOfSeq
<1>2. /\ Sent(ops) \in Seq(T) /\ Len(Sent(ops)) = Len(ops)
      /\ \A k \in 1..Len(ops) : Sent(ops)[k] = [op |-> ops[k], answer |-> Waiting]
  <2>1. Sent(ops) \in [1..Len(ops) -> T]
    BY <1>1 DEF Sent
  <2>2. Sent(ops) \in Seq(T)
    BY <1>1, <2>1, SeqDef
  <2>3. DOMAIN Sent(ops) = 1..Len(ops)
    BY <2>1
  <2>4. Len(Sent(ops)) = Len(ops)
    BY <1>1, <2>2, <2>3, LenProperties
  <2> QED BY <1>1, <2>2, <2>4 DEF Sent
<1>3. calls \in Seq(T)
  BY SeqMonotonic DEF Queue
<1> HIDE DEF T
<1>4. /\ calls' \in Seq(T) /\ Len(calls') = Len(calls) + Len(ops)
      /\ \A k \in 1..(Len(calls) + Len(ops)) :
           calls'[k] = IF k <= Len(calls) THEN calls[k] ELSE Sent(ops)[k - Len(calls)]
  BY <1>2, <1>3, ConcatProperties
<1>5. \A k \in 1..Len(calls) : calls'[k] = calls[k]
  BY <1>1, <1>4, QueueShape
<1>6. \A k \in 1..Len(ops) : calls'[Len(calls) + k] = [op |-> ops[k], answer |-> Waiting]
  BY <1>1, <1>2, <1>4, QueueShape
<1>7. \A k \in 1..Len(calls') : IsCall(calls'[k])
  <2> SUFFICES ASSUME NEW k \in 1..Len(calls') PROVE IsCall(calls'[k])
    OBVIOUS
  <2>1. CASE k <= Len(calls)
    BY <1>4, <1>5, <2>1, QueueShape DEF Queue
  <2>2. CASE k > Len(calls)
    <3>1. k - Len(calls) \in 1..Len(ops) /\ k = Len(calls) + (k - Len(calls))
      BY <1>1, <1>4, <2>2, QueueShape
    <3>2. calls'[k] = [op |-> ops[k - Len(calls)], answer |-> Waiting]
      BY <1>6, <3>1
    <3> QED BY <3>2 DEF IsCall
  <2> QED BY <2>1, <2>2, <1>1, <1>4, QueueShape
<1> QED BY <1>4, <1>5, <1>6, <1>7, IsQueue

LEMMA AfterSend ==
  ASSUME Queue, NEW op, Send(op)
  PROVE  /\ Queue' /\ Len(calls') = Len(calls) + 1
         /\ \A k \in 1..Len(calls) : calls'[k] = calls[k]
         /\ calls'[Len(calls) + 1] = [op |-> op, answer |-> Waiting]
<1> DEFINE c == [op |-> op, answer |-> Waiting]
           T == Range(calls) \cup {c}
<1>1. calls \in Seq(T) /\ c \in T /\ calls' = Append(calls, c)
  BY SeqMonotonic DEF Queue, Send
<1>2. IsCall(c)
  BY DEF IsCall
<1> HIDE DEF c, T
<1>3. /\ calls' \in Seq(T) /\ Len(calls') = Len(calls) + 1
      /\ \A k \in 1..Len(calls) : calls'[k] = calls[k]
      /\ calls'[Len(calls) + 1] = c
  BY <1>1, QueueShape
<1>4. \A k \in 1..Len(calls') : IsCall(calls'[k])
  BY <1>2, <1>3, QueueShape DEF Queue
<1> QED BY <1>3, <1>4, IsQueue DEF c

LEMMA AfterServe ==
  ASSUME Queue, NEW i \in DOMAIN calls, NEW answer, calls' = [calls EXCEPT ![i].answer = answer]
  PROVE  /\ Queue' /\ Len(calls') = Len(calls)
         /\ \A k \in DOMAIN calls : calls'[k].op = calls[k].op
         /\ \A k \in DOMAIN calls : k # i => calls'[k] = calls[k]
         /\ calls'[i] = [op |-> calls[i].op, answer |-> answer]
<1> DEFINE c == [op |-> calls[i].op, answer |-> answer]
           T == Range(calls) \cup {c}
<1>1. calls[i] = [op |-> calls[i].op, answer |-> calls[i].answer]
  BY DEF Queue, IsCall
<1>2. [calls[i] EXCEPT !.answer = answer] = c
  BY <1>1
<1>3. calls' = [calls EXCEPT ![i] = c]
  BY <1>2
<1>4. calls \in Seq(T) /\ c \in T /\ IsCall(c) /\ c.op = calls[i].op
  BY SeqMonotonic DEF Queue, IsCall
<1> HIDE DEF c, T
<1>5. /\ calls' \in Seq(T) /\ Len(calls') = Len(calls)
      /\ \A k \in 1..Len(calls) : calls'[k] = IF k = i THEN c ELSE calls[k]
  BY <1>3, <1>4, QueueShape, ExceptSeq
<1>6. \A k \in 1..Len(calls') : IsCall(calls'[k])
  BY <1>4, <1>5, QueueShape DEF Queue
<1> QED BY <1>4, <1>5, <1>6, IsQueue, QueueShape DEF c

LEMMA AfterAnswer ==
  ASSUME Queue, 1 \in DOMAIN calls, Answered(1, <<>>)
  PROVE  /\ Queue' /\ Len(calls') = Len(calls) - 1
         /\ \A k \in 1..(Len(calls) - 1) : calls'[k] = calls[k + 1]
<1> DEFINE T == Range(calls)
           rest == SubSeq(calls, 2, Len(calls))
<1>1. calls \in Seq(T) /\ Len(calls) \in Nat /\ Len(calls) >= 1
  BY QueueShape DEF Queue
<1>2. /\ rest \in Seq(T) /\ Len(rest) = Len(calls) - 1
      /\ \A k \in 1..(Len(calls) - 1) : rest[k] = calls[k + 1]
  <2>1. \A k \in 2..Len(calls) : calls[k] \in T
    BY <1>1, ElementOfSeq
  <2> HIDE DEF T
  <2>2. /\ rest \in Seq(T) /\ Len(rest) = IF 2 <= Len(calls) THEN Len(calls) - 2 + 1 ELSE 0
        /\ \A k \in 1..(Len(calls) - 2 + 1) : rest[k] = calls[2 + k - 1]
    BY <1>1, <2>1, SubSeqProperties
  <2>3. ASSUME NEW n \in Nat, n >= 1
        PROVE  n - 2 + 1 = n - 1 /\ (2 <= n \/ n - 1 = 0)
    BY <2>3
  <2>4. \A k \in 1..(Len(calls) - 1) : 2 + k - 1 = k + 1
    BY <1>1
  <2> HIDE DEF rest
  <2> QED BY <1>1, <2>2, <2>3, <2>4
<1>3. calls' = rest
  <2>1. SubSeq(calls, 1, 0) = <<>>
    BY SubSeqEmpty
  <2>2. Sent(<<>>) = <<>>
    BY DEF Sent
  <2>3. <<>> \o rest = rest /\ rest \o <<>> = rest
    BY <1>2, ConcatEmptySeq
  <2>4. calls' = (SubSeq(calls, 1, 1 - 1) \o SubSeq(calls, 1 + 1, Len(calls))) \o Sent(<<>>)
    BY DEF Answered, RemoveAt
  <2>5. 1 - 1 = 0 /\ 1 + 1 = 2
    OBVIOUS
  <2> QED BY <2>1, <2>2, <2>3, <2>4, <2>5
<1> HIDE DEF T, rest
<1>4. \A k \in 1..Len(calls') : IsCall(calls'[k])
  <2> SUFFICES ASSUME NEW k \in 1..Len(calls') PROVE IsCall(calls'[k])
    OBVIOUS
  <2>1. k \in 1..(Len(calls) - 1) /\ k + 1 \in DOMAIN calls
    BY <1>1, <1>2, <1>3, QueueShape
  <2> QED BY <1>2, <1>3, <2>1 DEF Queue
<1> QED BY <1>2, <1>3, <1>4, IsQueue

-----------------------------------------------------------------------------
(* Requests that are served and answered as they are sent.                   *)

LEMMA SentServed ==
  ASSUME Queue, NEW m, Served(m), NEW n \in Nat, Len(calls') = Len(calls) + n, Queue',
         \A k \in 1..Len(calls) : calls'[k] = calls[k],
         \A k \in 1..n : calls'[Len(calls) + k].answer = Waiting
  PROVE  Served(m)'
<1>1. m \in 0..Len(calls') /\ DOMAIN calls' = 1..Len(calls')
  BY QueueShape, LenProperties DEF Served, Queue
<1>2. ASSUME NEW k \in DOMAIN calls'
      PROVE  calls'[k].answer = Waiting <=> k > m
  <2>1. CASE k \in 1..Len(calls)
    BY <2>1, QueueShape DEF Served
  <2>2. CASE k \notin 1..Len(calls)
    <3>1. k - Len(calls) \in 1..n /\ k = Len(calls) + (k - Len(calls)) /\ k > m
      BY <1>1, <2>2, QueueShape DEF Served
    <3> QED BY <3>1
  <2> QED BY <2>1, <2>2
<1> QED BY <1>1, <1>2 DEF Served

LEMMA NextServed ==
  ASSUME Queue, Ordered, NEW m, Served(m), NEW i \in ToServe, NEW answer, answer # Waiting,
         calls' = [calls EXCEPT ![i].answer = answer]
  PROVE  i = m + 1 /\ Served(m + 1)'
<1>1. m \in 0..Len(calls) /\ Len(calls) \in Nat /\ DOMAIN calls = 1..Len(calls)
  BY QueueShape DEF Served
<1>2. i \in DOMAIN calls /\ calls[i].answer = Waiting /\ \A j \in 1..(i - 1) : calls[j].answer # Waiting
  BY DEF ToServe
<1>3. i > m /\ \A j \in 1..(i - 1) : j <= m
  BY <1>1, <1>2 DEF Served
<1>4. i = m + 1
  <2>1. i \in Nat /\ i >= 1 /\ m \in Nat
    BY <1>1, <1>2
  <2>2. CASE i = 1
    BY <1>3, <2>1, <2>2
  <2>3. CASE i > 1
    <3>1. i - 1 \in 1..(i - 1)
      BY <2>1, <2>3
    <3>2. i - 1 <= m
      BY <1>3, <3>1
    <3> QED BY <1>3, <2>1, <3>2
  <2> QED BY <2>1, <2>2, <2>3
<1>5. /\ Queue' /\ Len(calls') = Len(calls) /\ DOMAIN calls' = 1..Len(calls')
      /\ \A k \in DOMAIN calls : k # i => calls'[k] = calls[k]
      /\ calls'[i].answer = answer
  <2>1. /\ Queue' /\ Len(calls') = Len(calls)
        /\ \A k \in DOMAIN calls : k # i => calls'[k] = calls[k]
        /\ calls'[i] = [op |-> calls[i].op, answer |-> answer]
    BY <1>2, AfterServe
  <2>2. DOMAIN calls' = 1..Len(calls')
    BY <2>1, LenProperties DEF Queue
  <2> QED BY <2>1, <2>2
<1>6. m + 1 \in 0..Len(calls')
  BY <1>1, <1>2, <1>4, <1>5
<1>7. ASSUME NEW k \in DOMAIN calls'
      PROVE  calls'[k].answer = Waiting <=> k > m + 1
  <2>1. CASE k = i
    BY <1>1, <1>4, <1>5, <2>1
  <2>2. CASE k # i
    <3>1. calls'[k].answer = Waiting <=> k > m
      BY <1>1, <1>5, <2>2 DEF Served
    <3> QED BY <1>1, <1>4, <1>5, <2>2, <3>1
  <2> QED BY <2>1, <2>2
<1> QED BY <1>4, <1>6, <1>7 DEF Served

LEMMA NextAnswered ==
  ASSUME Queue, Ordered, NEW m, Served(m), NEW i \in ToAnswer
  PROVE  /\ i = 1 /\ 1 \in DOMAIN calls /\ m >= 1 /\ calls[1].answer # Waiting
         /\ Answered(1, <<>>) => Served(m - 1)'
<1>1. m \in 0..Len(calls) /\ Len(calls) \in Nat /\ DOMAIN calls = 1..Len(calls)
  BY QueueShape DEF Served
<1>2. i = 1 /\ 1 \in DOMAIN calls /\ calls[1].answer # Waiting
  BY DEF ToAnswer
<1>3. m >= 1
  BY <1>1, <1>2 DEF Served
<1>4. ASSUME Answered(1, <<>>) PROVE Served(m - 1)'
  <2>1. /\ Queue' /\ Len(calls') = Len(calls) - 1 /\ DOMAIN calls' = 1..Len(calls')
        /\ \A k \in 1..(Len(calls) - 1) : calls'[k] = calls[k + 1]
    BY <1>2, <1>4, AfterAnswer, LenProperties DEF Queue
  <2>2. m - 1 \in 0..Len(calls')
    BY <1>1, <1>3, <2>1
  <2>3. ASSUME NEW k \in DOMAIN calls'
        PROVE  calls'[k].answer = Waiting <=> k > m - 1
    <3>1. k \in 1..(Len(calls) - 1) /\ k + 1 \in DOMAIN calls
      BY <1>1, <2>1
    <3>2. calls[k + 1].answer = Waiting <=> k + 1 > m
      BY <3>1 DEF Served
    <3> QED BY <1>1, <2>1, <3>1, <3>2
  <2> QED BY <2>2, <2>3 DEF Served
<1> QED BY <1>2, <1>3, <1>4

\* A request that failed has been noticed since, or is still there to be noticed.
LEMMA StaysReliable ==
  ASSUME Queue, Reliable',
         \/ /\ missed => missed'
            /\ Len(calls') >= Len(calls) /\ Len(calls') \in Nat
            /\ DOMAIN calls' = 1..Len(calls')
            /\ \A k \in 1..Len(calls) : calls[k].answer = Failed => calls'[k].answer = Failed
         \/ /\ missed' = (missed \/ ~ok(1)) /\ 1 \in DOMAIN calls /\ Answered(1, <<>>)
  PROVE  Reliable
<1>1. CASE /\ missed => missed'
           /\ Len(calls') >= Len(calls) /\ Len(calls') \in Nat
           /\ DOMAIN calls' = 1..Len(calls')
           /\ \A k \in 1..Len(calls) : calls[k].answer = Failed => calls'[k].answer = Failed
  BY <1>1, QueueShape DEF Reliable
<1>2. CASE missed' = (missed \/ ~ok(1)) /\ 1 \in DOMAIN calls /\ Answered(1, <<>>)
  <2>1. ~missed /\ calls[1].answer # Failed
    BY <1>2 DEF Reliable, ok
  <2>2. ASSUME NEW k \in DOMAIN calls, k # 1 PROVE calls[k].answer # Failed
    <3>1. /\ DOMAIN calls' = 1..Len(calls') /\ Len(calls') = Len(calls) - 1
          /\ \A j \in 1..(Len(calls) - 1) : calls'[j] = calls[j + 1]
      BY <1>2, AfterAnswer, LenProperties DEF Queue
    <3>2. k - 1 \in 1..(Len(calls) - 1) /\ (k - 1) + 1 = k
      BY <2>2, QueueShape
    <3>3. calls'[k - 1].answer # Failed /\ calls'[k - 1] = calls[k]
      BY <3>1, <3>2 DEF Reliable
    <3> QED BY <3>3
  <2> QED BY <2>1, <2>2 DEF Reliable
<1> QED BY <1>1, <1>2

-----------------------------------------------------------------------------
(* The resume menu and the layout.                                          *)

\* An open menu has its options or waits for them, unless a request failed.
MenuInv ==
  /\ Queue
  /\ fetching => calls # <<>>
  /\ menuOpen /\ ~missed => options \/ fetching

LEMMA MenuKeeps ==
  ASSUME Ordered, MenuInv, ResumeNext
  PROVE  MenuInv'
<1>1. CASE handleClick
  <2>1. CASE Needed
    <3>1. Send([kind |-> "resume"]) /\ fetching' = TRUE
      BY <1>1, <2>1 DEF handleClick
    <3>2. Queue' /\ Len(calls') = Len(calls) + 1 /\ Len(calls) \in Nat
      BY <3>1, AfterSend, QueueShape DEF MenuInv
    <3>3. calls' # <<>>
      BY <3>2, EmptySeq
    <3> QED BY <3>1, <3>2, <3>3 DEF MenuInv
  <2>2. CASE ~Needed
    <3>1. UNCHANGED <<fetching, calls, options, missed>> /\ (options \/ fetching)
      BY <1>1, <2>2 DEF handleClick, Needed
    <3> QED BY <3>1 DEF MenuInv, Queue
  <2> QED BY <2>1, <2>2
<1>2. CASE ServeResume \/ (LoseRequest /\ UNCHANGED <<acts, missed, resumeVars>>)
  <2>1. PICK i \in DOMAIN calls, answer \in {"commands", Failed} :
          calls' = [calls EXCEPT ![i].answer = answer]
    BY <1>2 DEF ServeResume, LoseRequest, Serve, ToServe
  <2>2. Queue' /\ Len(calls') = Len(calls)
    BY <2>1, AfterServe DEF MenuInv
  <2>3. calls # <<>> => calls' # <<>>
    BY <2>2, QueueShape, EmptySeq DEF MenuInv
  <2>4. UNCHANGED <<menuOpen, options, fetching, missed>>
    BY <1>2 DEF ServeResume, resumeVars
  <2> QED BY <2>2, <2>3, <2>4 DEF MenuInv
<1>3. CASE ResumeAnswer
  <2>1. PICK i \in ToAnswer : /\ options' = (options \/ ok(i)) /\ fetching' = FALSE
                              /\ missed' = (missed \/ ~ok(i)) /\ Answered(i, <<>>) /\ UNCHANGED menuOpen
    BY <1>3 DEF ResumeAnswer
  <2>2. Queue'
    BY <2>1, AfterAnswer DEF MenuInv, ToAnswer
  <2> QED BY <2>1, <2>2 DEF MenuInv
<1>4. CASE CopyCommand \/ CloseMenu
  BY <1>4 DEF CopyCommand, CloseMenu, MenuInv, Queue
<1>5. CASE CopyTimerFires
  BY <1>5 DEF CopyTimerFires, requestVars, MenuInv, Queue
<1> QED BY <1>1, <1>2, <1>3, <1>4, <1>5 DEF ResumeNext

\* What is stored is what is shown, the width once the drag has ended; a row that was
\* measured wide has not collapsed the drawer.
LayoutInv ==
  /\ DOMAIN stored = {"drawer", "console", "tab", "width"} /\ stored.drawer \in BOOLEAN
  /\ stored = [f \in DOMAIN stored |-> stored[f]]
  /\ stored.drawer = drawerCollapsedPref /\ stored.console = consoleCollapsed
  /\ stored.tab = activityTab
  /\ drag = None => stored.width = value
  /\ rowWidth = "wide" => ~autoCollapsed

LEMMA ExpandKeeps ==
  ASSUME LayoutInv, NEW tab, expandDrawer(tab, stored), UNCHANGED <<consoleCollapsed, value, drag, rowWidth>>
  PROVE  LayoutInv'
  BY DEF LayoutInv, expandDrawer

LEMMA LayoutKeeps ==
  ASSUME LayoutInv, RowNext
  PROVE  LayoutInv'
<1> USE DEF LayoutInv
<1>1. CASE Observe
  BY <1>1 DEF Observe, panes
<1>2. CASE ResizeRow \/ handleJumpTerminal
  BY <1>2 DEF ResizeRow, handleJumpTerminal, measured, drawer, panes
<1>3. CASE toggleDrawer
  BY <1>3, ExpandKeeps DEF toggleDrawer, toggleStored, measured, panes
<1>4. CASE SelectActivityTab
  BY <1>4, ExpandKeeps DEF SelectActivityTab, measured, panes, drawer
<1>5. CASE toggleConsole
  BY <1>5 DEF toggleConsole, measured, drawer
<1>6. CASE RouteRow
  BY <1>6, ExpandKeeps DEF RouteRow, measured, panes, drawer
<1>7. CASE startResize \/ onMove
  BY <1>7 DEF startResize, onMove, measured, drawer
<1>8. CASE onUp
  BY <1>8 DEF onUp, measured, drawer
<1>9. CASE Remount
  BY <1>9 DEF Remount, Mounted
<1> QED BY <1>1, <1>2, <1>3, <1>4, <1>5, <1>6, <1>7, <1>8, <1>9 DEF RowNext

-----------------------------------------------------------------------------
(* The editor.                                                              *)

\* In the order in which a text is edited: later versions after earlier ones, the
\* normal form of a version after the raw one.
Rank(t) == 2 * t.version + (IF t.raw THEN 0 ELSE 1)

IsSave(k) == calls[k].op.kind = "save"
Unsaved(k) == IsSave(k) /\ calls[k].answer = Waiting
IsLoad(k) == calls[k].op.kind = "file" /\ calls[k].op.mounting = opened

EditorTypes ==
  /\ srvText \in Texts /\ source \in Texts /\ html \in Texts /\ lastSaved \in Texts
  /\ timer \in Texts \cup {None} /\ versions \in Nat /\ opened \in Nat
  /\ srvTitle \in Headings /\ srvMode \in {"writable", "readonly"} /\ originalTitle \in Headings
  /\ \A k \in DOMAIN calls :
       /\ calls[k].op.kind \in {"file", "save"} /\ calls[k].op.text \in Texts
       /\ calls[k].op.mounting \in 0..opened
       /\ IsSave(k) => calls[k].op.title \in Headings
       /\ ~IsSave(k) /\ calls[k].answer \notin {Waiting, Failed} => calls[k].answer \in Answers

\* Nothing is saved while the file is loaded, and it is loaded into the visual mode.
EditorIdle ==
  /\ ~mounted \/ loading \/ readOnly => timer = None
  /\ loading => editorMode = "wysiwyg"

\* What the server has once all that was sent is saved.
LastSent(t) ==
  \/ t = srvText /\ \A k \in DOMAIN calls : ~Unsaved(k)
  \/ \E k \in DOMAIN calls : /\ Unsaved(k) /\ t = calls[k].op.text
                             /\ \A j \in DOMAIN calls : Unsaved(j) => j <= k

\* The load that is due was sent after all saves, and answers what they left.
LoadIsDue(t) ==
  \E k \in DOMAIN calls :
    /\ IsLoad(k)
    /\ \A j \in DOMAIN calls : (IsSave(j) => j < k) /\ (IsLoad(j) => j = k)
    /\ calls[k].answer # Waiting => calls[k].answer.text = t

\* What was saved comes before what was sent last, and that before what is shown; what
\* is shown waits for the timer or was sent.
InStep(t) ==
  /\ Rank(lastSaved) <= Rank(t) /\ Rank(t) <= Rank(Shown) /\ Shown.version <= versions
  /\ IF timer = None THEN Shown = t ELSE timer = Shown

Following(t) ==
  /\ t \in Texts /\ LastSent(t) /\ t.version <= versions
  /\ \A k \in DOMAIN calls : IsSave(k) => Rank(calls[k].op.text) <= Rank(t)
  /\ mounted /\ loading => LoadIsDue(t)
  /\ mounted /\ ~loading => \A k \in DOMAIN calls : ~IsLoad(k)
  /\ mounted /\ ~loading /\ ~readOnly => InStep(t)

EditorInv ==
  /\ Queue /\ (\E m \in Nat : Served(m))
  /\ EditorTypes /\ EditorIdle
  /\ Reliable => \E t \in Texts : Following(t)

LEMMA RankOrders ==
  ASSUME NEW t \in Texts, NEW u \in Texts
  PROVE  /\ Rank(t) \in Nat
         /\ Rank(t) <= Rank(u) /\ Rank(u) <= Rank(t) => t = u
         /\ t.version < u.version => Rank(t) <= Rank(u)
         /\ Rank(t) <= Rank(Normal(t))
         /\ Normal(t) \in Texts /\ Normal(t).version = t.version
<1>1. /\ t.version \in Nat /\ t.raw \in BOOLEAN /\ u.version \in Nat /\ u.raw \in BOOLEAN
      /\ t = [version |-> t.version, raw |-> t.raw] /\ u = [version |-> u.version, raw |-> u.raw]
  BY DEF Texts
<1>2. Normal(t) \in Texts /\ Normal(t).version = t.version /\ ~Normal(t).raw
  BY DEF Normal, Texts
<1>3. Rank(t) \in Nat /\ (t.version < u.version => Rank(t) <= Rank(u))
  BY <1>1 DEF Rank
<1>4. Rank(Normal(t)) = 2 * t.version + 1 /\ Rank(t) <= Rank(Normal(t))
  BY <1>1, <1>2 DEF Rank
<1>5. ASSUME Rank(t) <= Rank(u), Rank(u) <= Rank(t) PROVE t = u
  <2>1. Rank(t) = Rank(u)
    BY <1>1, <1>5 DEF Rank
  <2>2. t.version = u.version /\ (t.raw <=> u.raw)
    BY <1>1, <2>1 DEF Rank
  <2>3. t.raw = u.raw
    BY <1>1, <2>2
  <2> QED BY <1>1, <2>2, <2>3
<1> QED BY <1>2, <1>3, <1>4, <1>5

\* Who serves keeps what a load answers and what was sent last.
LEMMA EditorServed ==
  ASSUME EditorInv, Ordered, ServeEditor
  PROVE  EditorInv'
<1>1. PICK m \in Nat : Served(m)
  BY DEF EditorInv
<1> DEFINE file == [text |-> srvText, title |-> srvTitle, mode |-> srvMode]
<1>2. PICK i \in ToServe :
        /\ Serve(i, IF calls[i].op.kind = "file" THEN file ELSE "done")
        /\ srvText' = IF calls[i].op.kind = "save" THEN calls[i].op.text ELSE srvText
        /\ srvTitle' = IF calls[i].op.kind = "save" THEN calls[i].op.title ELSE srvTitle
  BY DEF ServeEditor
<1>3. UNCHANGED <<missed, srvMode, opened, mounted, loading, readOnly, lastSaved, originalTitle,
                  editorMode, source, html, timer, versions>>
  BY DEF ServeEditor, fileRefs
<1>4. PICK answer \in {IF calls[i].op.kind = "file" THEN file ELSE "done", Failed} :
        calls' = [calls EXCEPT ![i].answer = answer]
  BY <1>2 DEF Serve
<1>5. /\ Queue /\ i \in DOMAIN calls /\ calls[i].answer = Waiting
      /\ calls[i].op.kind \in {"file", "save"} /\ calls[i].op.text \in Texts
      /\ calls[i].op.kind = "save" => calls[i].op.title \in Headings
  BY <1>2 DEF EditorInv, ToServe, EditorTypes, IsSave
<1>6. file \in Answers
  BY DEF EditorInv, EditorTypes, Answers
<1> HIDE DEF file
<1>7. answer # Waiting
  BY <1>4, <1>6, EditorAssumption, RequestAssumption
<1>8. i = m + 1 /\ Served(m + 1)'
  BY <1>1, <1>4, <1>5, <1>7, NextServed
<1>9. /\ Queue' /\ Len(calls') = Len(calls) /\ DOMAIN calls' = DOMAIN calls
      /\ \A k \in DOMAIN calls : calls'[k].op = calls[k].op
      /\ \A k \in DOMAIN calls : k # i => calls'[k] = calls[k]
      /\ calls'[i].answer = answer
  <2>1. /\ Queue' /\ Len(calls') = Len(calls)
        /\ \A k \in DOMAIN calls : calls'[k].op = calls[k].op
        /\ \A k \in DOMAIN calls : k # i => calls'[k] = calls[k]
        /\ calls'[i] = [op |-> calls[i].op, answer |-> answer]
    BY <1>4, <1>5, AfterServe
  <2>2. DOMAIN calls' = DOMAIN calls
    BY <1>5, <2>1, QueueShape, LenProperties DEF Queue
  <2> QED BY <2>1, <2>2
<1>10. EditorTypes' /\ EditorIdle'
  <2>1. srvText' \in Texts /\ srvTitle' \in Headings /\ srvMode' \in {"writable", "readonly"}
    BY <1>2, <1>3, <1>5 DEF EditorInv, EditorTypes
  <2>2. calls[i].op.kind # "save" => answer \in Answers \cup {Failed}
    BY <1>4, <1>5, <1>6
  <2>3. ASSUME NEW k \in DOMAIN calls'
        PROVE  /\ calls'[k].op.kind \in {"file", "save"} /\ calls'[k].op.text \in Texts
               /\ calls'[k].op.mounting \in 0..opened'
               /\ IsSave(k)' => calls'[k].op.title \in Headings
               /\ ~IsSave(k)' /\ calls'[k].answer \notin {Waiting, Failed} => calls'[k].answer \in Answers
    BY <1>3, <1>9, <2>2 DEF EditorInv, EditorTypes, IsSave
  <2> QED BY <1>3, <2>1, <2>3 DEF EditorInv, EditorTypes, EditorIdle
<1>11. ASSUME Reliable' PROVE \E t \in Texts : Following(t)'
  <2>1. answer # Failed
    BY <1>5, <1>9, <1>11 DEF Reliable
  <2>2. Reliable
    BY <1>3, <1>5, <1>9, <1>11, <2>1, RequestAssumption DEF Reliable
  <2>3. PICK t \in Texts : Following(t)
    BY <2>2 DEF EditorInv
  <2>4. \A k \in DOMAIN calls : (IsSave(k)' <=> IsSave(k)) /\ (IsLoad(k)' <=> IsLoad(k))
    BY <1>3, <1>9 DEF IsSave, IsLoad
  <2>5. \A k \in DOMAIN calls : Unsaved(k)' <=> Unsaved(k) /\ k # i
    BY <1>7, <1>9, <2>4 DEF Unsaved
  <2>6. \A k \in DOMAIN calls : Unsaved(k) => i <= k
    BY <1>1, <1>8 DEF Served, Unsaved
  <2>7. LastSent(t)'
    <3>1. CASE ~IsSave(i)
      <4>1. srvText' = srvText /\ \A k \in DOMAIN calls : Unsaved(k)' <=> Unsaved(k)
        BY <1>2, <2>5, <3>1 DEF IsSave, Unsaved
      <4> QED BY <1>9, <2>3, <4>1 DEF Following, LastSent
    <3>2. CASE IsSave(i)
      <4>1. Unsaved(i) /\ srvText' = calls[i].op.text
        BY <1>2, <1>5, <3>2 DEF IsSave, Unsaved
      <4>2. PICK k \in DOMAIN calls : /\ Unsaved(k) /\ t = calls[k].op.text
                                      /\ \A j \in DOMAIN calls : Unsaved(j) => j <= k
        BY <1>5, <2>3, <4>1 DEF Following, LastSent
      <4>3. CASE k = i
        <5>1. \A j \in DOMAIN calls : Unsaved(j) => j = i
          <6>1. \A j \in DOMAIN calls : j \in Int
            BY <1>5, QueueShape
          <6> QED BY <1>5, <2>6, <4>2, <4>3, <6>1
        <5> QED BY <1>9, <2>5, <4>1, <4>2, <4>3, <5>1 DEF LastSent
      <4>4. CASE k # i
        BY <1>9, <2>5, <4>2, <4>4 DEF LastSent
      <4> QED BY <4>3, <4>4
    <3> QED BY <3>1, <3>2
  <2>8. mounted /\ loading => LoadIsDue(t)'
    <3> SUFFICES ASSUME mounted, loading PROVE LoadIsDue(t)'
      OBVIOUS
    <3>1. PICK k \in DOMAIN calls :
            /\ IsLoad(k)
            /\ \A j \in DOMAIN calls : (IsSave(j) => j < k) /\ (IsLoad(j) => j = k)
            /\ calls[k].answer # Waiting => calls[k].answer.text = t
      BY <2>3 DEF Following, LoadIsDue
    <3>2. calls'[k].answer # Waiting => calls'[k].answer.text = t
      <4>1. CASE k # i
        BY <1>9, <3>1, <4>1
      <4>2. CASE k = i
        <5>1. \A j \in DOMAIN calls : ~Unsaved(j)
          <6>1. \A j \in DOMAIN calls : j \in Int
            BY <1>5, QueueShape
          <6> QED BY <1>5, <2>6, <3>1, <4>2, <6>1 DEF Unsaved
        <5>2. t = srvText
          BY <2>3, <5>1 DEF Following, LastSent
        <5>3. answer = file
          BY <1>4, <2>1, <3>1, <4>2 DEF IsLoad
        <5> QED BY <1>9, <4>2, <5>2, <5>3 DEF file
      <4> QED BY <4>1, <4>2
    <3> QED BY <1>9, <2>4, <3>1, <3>2 DEF LoadIsDue
  <2>9. InStep(t)' <=> InStep(t)
    BY <1>3 DEF InStep, Shown
  <2> QED BY <1>3, <1>9, <2>3, <2>4, <2>7, <2>8, <2>9 DEF Following
<1> QED BY <1>8, <1>9, <1>10, <1>11, <1>1 DEF EditorInv

\* A step that leaves the requests alone has to keep in step what is shown.
LEMMA EditorAlone ==
  ASSUME EditorInv, UNCHANGED <<calls, missed, srvText, opened>>, EditorTypes', EditorIdle',
         versions' >= versions,
         \A t \in Texts : Following(t) =>
           /\ mounted' /\ loading' => mounted /\ loading
           /\ mounted' /\ ~loading' => mounted /\ ~loading
           /\ mounted' /\ ~loading' /\ ~readOnly' => InStep(t)'
  PROVE  EditorInv'
<1>1. /\ Queue' /\ (\A m : Served(m)' <=> Served(m)) /\ (Reliable' <=> Reliable)
      /\ \A k : /\ IsSave(k)' <=> IsSave(k)
                /\ Unsaved(k)' <=> Unsaved(k)
                /\ IsLoad(k)' <=> IsLoad(k)
  BY DEF EditorInv, Queue, Served, Reliable, IsSave, Unsaved, IsLoad
<1>2. ASSUME NEW t \in Texts, Following(t) PROVE Following(t)'
  <2>1. LastSent(t)' /\ (LoadIsDue(t)' <=> LoadIsDue(t))
    BY <1>1, <1>2 DEF Following, LastSent, LoadIsDue
  <2>2. t.version \in Nat /\ t.version <= versions'
    BY <1>2 DEF Following, Texts, EditorInv, EditorTypes
  <2> QED BY <1>1, <1>2, <2>1, <2>2 DEF Following
<1> QED BY <1>1, <1>2 DEF EditorInv

LEMMA TypeKeeps ==
  ASSUME EditorInv, ~Retype, Type
  PROVE  EditorInv'
<1>1. /\ Editable /\ UNCHANGED <<calls, opened, mounted, loading, readOnly, lastSaved, originalTitle,
                                 editorMode, missed, srvText, srvTitle, srvMode>>
      /\ html' = IF editorMode = "wysiwyg" THEN source' ELSE html
      /\ timer' = Rearmed(source', lastSaved, readOnly)
  BY DEF Type, fileRefs, editorRest
<1>2. PICK raw \in BOOLEAN : /\ source' = Text(versions + 1, raw /\ editorMode = "source")
                             /\ versions' = IF versions + 1 > versions THEN versions + 1 ELSE versions
  BY DEF Type
<1>3. versions \in Nat /\ versions' = versions + 1
  BY <1>2 DEF EditorInv, EditorTypes
<1>4. source' \in Texts /\ source'.version = versions + 1
  BY <1>2, <1>3 DEF Text, Texts
<1>5. EditorTypes' /\ EditorIdle'
  <2>1. timer' \in Texts \cup {None}
    BY <1>1, <1>4 DEF Rearmed
  <2> QED BY <1>1, <1>3, <1>4, <2>1 DEF EditorInv, EditorTypes, EditorIdle, IsSave, Editable
<1>6. ASSUME NEW t \in Texts, Following(t) PROVE InStep(t)'
  <2>1. InStep(t) /\ t.version <= versions
    BY <1>1, <1>6 DEF Following, Editable
  <2>2. Shown' = source' /\ lastSaved' = lastSaved /\ lastSaved \in Texts /\ Shown \in Texts
    BY <1>1 DEF Shown, EditorInv, EditorTypes
  <2>3. Rank(t) <= Rank(source')
    BY <1>3, <1>4, <2>1, RankOrders DEF Texts
  <2>4. lastSaved # source'
    <3>1. Rank(lastSaved) <= Rank(Shown) /\ Shown.version <= versions
      BY <2>1, <2>2, RankOrders DEF InStep
    <3>2. lastSaved.version <= versions
      BY <1>3, <2>2, <3>1 DEF Rank, Texts
    <3> QED BY <1>3, <1>4, <3>2
  <2>5. timer' = source' /\ source' # None
    BY <1>1, <1>4, <2>4, EditorAssumption DEF Rearmed, Editable
  <2> QED BY <1>3, <1>4, <2>1, <2>2, <2>3, <2>5 DEF InStep
<1>7. versions' >= versions
  BY <1>3
<1> QED BY <1>1, <1>5, <1>6, <1>7, EditorAlone

LEMMA ToggleKeeps ==
  ASSUME EditorInv, toggleMode
  PROVE  EditorInv'
<1>1. /\ Editable /\ UNCHANGED <<calls, opened, mounted, loading, readOnly, lastSaved, originalTitle,
                                 versions, missed, srvText, srvTitle, srvMode>>
      /\ IF editorMode = "wysiwyg"
         THEN editorMode' = "source" /\ source' = html /\ html' = html
         ELSE editorMode' = "wysiwyg" /\ html' = Normal(source) /\ source' = source
      /\ timer' = Rearmed(IF editorMode = "wysiwyg" THEN source' ELSE html', lastSaved, readOnly)
  BY DEF toggleMode, fileRefs, editorRest
<1>2. Shown \in Texts /\ source \in Texts /\ html \in Texts /\ lastSaved \in Texts /\ versions \in Nat
  BY DEF EditorInv, EditorTypes, Shown
<1>3. /\ Shown' \in {Shown, Normal(Shown)} /\ timer' = (IF Shown' = lastSaved THEN None ELSE Shown')
      /\ source' \in Texts /\ html' \in Texts
  <2>1. ~readOnly
    BY <1>1 DEF Editable
  <2>2. CASE editorMode = "wysiwyg"
    BY <1>1, <1>2, <2>1, <2>2 DEF Shown, Rearmed
  <2>3. CASE editorMode # "wysiwyg"
    BY <1>1, <1>2, <2>1, <2>3, RankOrders DEF Shown, Rearmed
  <2> QED BY <2>2, <2>3
<1>4. Shown' \in Texts /\ Rank(Shown) <= Rank(Shown)' /\ Shown'.version = Shown.version
  BY <1>2, <1>3, RankOrders
<1>5. EditorTypes' /\ EditorIdle'
  <2>1. timer' \in Texts \cup {None}
    BY <1>3, <1>4
  <2> QED BY <1>1, <1>3, <2>1 DEF EditorInv, EditorTypes, EditorIdle, IsSave, Editable
<1>6. ASSUME NEW t \in Texts, Following(t) PROVE InStep(t)'
  <2>1. InStep(t)
    BY <1>1, <1>6 DEF Following, Editable
  <2>2. /\ Rank(lastSaved) \in Nat /\ Rank(t) \in Nat /\ Rank(Shown) \in Nat /\ Rank(Shown)' \in Nat
    BY <1>2, <1>4, RankOrders
  <2>3. Rank(lastSaved) <= Rank(t) /\ Rank(t) <= Rank(Shown)'
    BY <1>4, <2>1, <2>2 DEF InStep
  <2>4. CASE Shown' = lastSaved
    <3>1. timer' = None
      BY <1>3, <2>4
    <3>2. t = Shown'
      BY <1>2, <1>4, <2>2, <2>3, <2>4, RankOrders
    <3> QED BY <1>1, <1>4, <2>1, <2>3, <3>1, <3>2 DEF InStep
  <2>5. CASE Shown' # lastSaved
    <3>1. timer' = Shown' /\ timer' # None
      BY <1>3, <1>4, <2>5, EditorAssumption
    <3> QED BY <1>1, <1>4, <2>1, <2>3, <3>1 DEF InStep
  <2> QED BY <2>4, <2>5
<1>7. versions' >= versions
  BY <1>1, <1>2
<1> QED BY <1>1, <1>5, <1>6, <1>7, EditorAlone

LEMMA SaveKeeps ==
  ASSUME EditorInv, doSave
  PROVE  EditorInv'
<1>1. /\ timer # None /\ timer' = None /\ Send(EditorOp("save", timer, TitleFor(timer)))
      /\ UNCHANGED <<opened, mounted, loading, readOnly, lastSaved, originalTitle, editorMode, source,
                     html, versions, missed, srvText, srvTitle, srvMode>>
  BY DEF doSave, fileRefs, editorRest
<1>2. /\ timer \in Texts /\ mounted /\ ~loading /\ ~readOnly
      /\ TitleFor(timer) \in Headings
  <2>1. timer \in Texts /\ mounted /\ ~loading /\ ~readOnly /\ originalTitle \in Headings
    BY <1>1 DEF EditorInv, EditorTypes, EditorIdle
  <2>2. TitleFor(timer) \in {originalTitle, "Heading", "Untitled"}
    BY ZenonT(20) DEF TitleFor
  <2>3. "Heading" \in Headings /\ "Untitled" \in Headings
    BY DEF Headings
  <2> QED BY <2>1, <2>2, <2>3
<1>3. PICK text \in Texts : text = timer
  BY <1>2
<1>4. PICK op : op = EditorOp("save", timer, TitleFor(timer))
  OBVIOUS
<1>5. op.kind = "save" /\ op.text = text /\ op.mounting = opened /\ op.title \in Headings
  BY <1>2, <1>3, <1>4 DEF EditorOp
<1>6. PICK n \in Nat : n = Len(calls)
  BY QueueShape DEF EditorInv
<1>7. /\ Queue' /\ Len(calls') = n + 1 /\ DOMAIN calls = 1..n /\ DOMAIN calls' = 1..(n + 1)
      /\ \A k \in 1..n : calls'[k] = calls[k]
      /\ calls'[n + 1].op = op /\ calls'[n + 1].answer = Waiting
  <2>1. /\ Queue' /\ Len(calls') = n + 1
        /\ \A k \in 1..n : calls'[k] = calls[k]
        /\ calls'[n + 1] = [op |-> op, answer |-> Waiting]
    BY <1>1, <1>4, <1>6, AfterSend DEF EditorInv
  <2>2. DOMAIN calls' = 1..Len(calls')
    BY <2>1, LenProperties DEF Queue
  <2> QED BY <1>6, <2>1, <2>2, QueueShape DEF EditorInv
<1>8. \A k \in 1..n : /\ IsSave(k)' <=> IsSave(k)
                      /\ Unsaved(k)' <=> Unsaved(k)
                      /\ IsLoad(k)' <=> IsLoad(k)
  BY <1>1, <1>7 DEF IsSave, Unsaved, IsLoad
<1>9. Unsaved(n + 1)' /\ IsSave(n + 1)' /\ ~IsLoad(n + 1)' /\ calls'[n + 1].op.text = text
  BY <1>5, <1>7 DEF IsSave, Unsaved, IsLoad
<1>10. \E m \in Nat : Served(m)'
  <2>1. PICK m \in Nat : Served(m)
    BY DEF EditorInv
  <2>2. \A k \in 1..1 : calls'[Len(calls) + k].answer = Waiting
    BY <1>6, <1>7
  <2>3. Served(m)'
    BY <1>6, <1>7, <2>1, <2>2, SentServed DEF EditorInv
  <2> QED BY <2>3
<1>11. EditorTypes' /\ EditorIdle'
  <2>1. ASSUME NEW k \in DOMAIN calls'
        PROVE  /\ calls'[k].op.kind \in {"file", "save"} /\ calls'[k].op.text \in Texts
               /\ calls'[k].op.mounting \in 0..opened'
               /\ IsSave(k)' => calls'[k].op.title \in Headings
               /\ ~IsSave(k)' /\ calls'[k].answer \notin {Waiting, Failed} => calls'[k].answer \in Answers
    <3>1. CASE k \in 1..n
      BY <1>1, <1>7, <1>8, <3>1 DEF EditorInv, EditorTypes
    <3>2. CASE k = n + 1
      <4>1. opened \in 0..opened
        BY DEF EditorInv, EditorTypes
      <4> QED BY <1>1, <1>2, <1>5, <1>7, <1>9, <3>2, <4>1
    <3> QED BY <1>7, <3>1, <3>2
  <2> QED BY <1>1, <2>1 DEF EditorInv, EditorTypes, EditorIdle
<1>12. ASSUME Reliable' PROVE Following(text)'
  <2>1. Reliable
    BY <1>1, <1>7, <1>12 DEF Reliable
  <2>2. PICK t \in Texts : Following(t)
    BY <2>1 DEF EditorInv
  <2>3. InStep(t) /\ text = Shown /\ text = Shown'
    BY <1>1, <1>2, <1>3, <2>2 DEF Following, InStep, Shown
  <2>4. LastSent(text)'
    <3>1. n + 1 \in DOMAIN calls' /\ \A j \in DOMAIN calls' : j <= n + 1
      BY <1>7
    <3> QED BY <1>9, <3>1 DEF LastSent
  <2>5. /\ Rank(t) \in Nat /\ Rank(text) \in Nat /\ Rank(lastSaved) \in Nat
        /\ Rank(t) <= Rank(text) /\ Rank(lastSaved) <= Rank(t)
    BY <1>2, <2>2, <2>3, RankOrders DEF InStep, EditorInv, EditorTypes
  <2>6. \A k \in DOMAIN calls' : IsSave(k)' => Rank(calls'[k].op.text) <= Rank(text)
    <3> SUFFICES ASSUME NEW k \in DOMAIN calls', IsSave(k)' PROVE Rank(calls'[k].op.text) <= Rank(text)
      OBVIOUS
    <3>1. CASE k \in 1..n
      <4>1. calls[k].op.text \in Texts /\ Rank(calls[k].op.text) <= Rank(t)
        BY <1>7, <1>8, <2>2, <3>1 DEF Following, EditorInv, EditorTypes
      <4>2. Rank(calls[k].op.text) \in Nat
        BY <4>1, RankOrders
      <4> QED BY <1>7, <2>5, <3>1, <4>1, <4>2
    <3>2. CASE k = n + 1
      BY <1>9, <2>5, <3>2
    <3> QED BY <1>7, <3>1, <3>2
  <2>7. \A k \in DOMAIN calls' : ~IsLoad(k)'
    BY <1>2, <1>7, <1>8, <1>9, <2>2 DEF Following
  <2>8. Shown'.version <= versions'
    BY <1>1, <2>3 DEF InStep
  <2>9. InStep(text)'
    <3>1. Rank(lastSaved') <= Rank(text) /\ Rank(text) <= Rank(Shown')
      BY <1>1, <2>3, <2>5
    <3> QED BY <1>1, <2>3, <2>8, <3>1 DEF InStep
  <2>10. mounted' /\ ~loading' /\ text.version <= versions'
    BY <1>1, <1>2, <2>3, <2>8
  <2> QED BY <2>4, <2>6, <2>7, <2>9, <2>10 DEF Following
<1>13. Reliable' => \E t \in Texts : Following(t)'
  BY <1>12
<1> QED BY <1>7, <1>10, <1>11, <1>13 DEF EditorInv

LEMMA CloseKeeps ==
  ASSUME EditorInv, CloseEditor \/ RenameFile
  PROVE  EditorInv'
<1>1. /\ UNCHANGED <<calls, opened, loading, readOnly, lastSaved, originalTitle, editorMode, source,
                     html, versions, missed, srvText, srvMode>>
      /\ srvTitle' \in {srvTitle, "Renamed"}
      /\ (mounted' = mounted /\ timer' = timer) \/ (mounted' = FALSE /\ timer' = None)
  BY DEF CloseEditor, RenameFile, fileRefs, editorRest
<1>2. EditorTypes' /\ EditorIdle'
  <2>1. srvTitle' \in Headings /\ timer' \in Texts \cup {None}
    BY <1>1 DEF EditorInv, EditorTypes, Headings
  <2> QED BY <1>1, <2>1 DEF EditorInv, EditorTypes, EditorIdle, IsSave
<1>3. ASSUME NEW t \in Texts, Following(t), mounted', ~loading', ~readOnly'
      PROVE  InStep(t)'
  BY <1>1, <1>3 DEF Following, InStep, Shown
<1>4. versions' >= versions
  BY <1>1 DEF EditorInv, EditorTypes
<1>5. mounted' => mounted
  BY <1>1
<1> QED BY <1>1, <1>2, <1>3, <1>4, <1>5, EditorAlone

LEMMA LoseKeeps ==
  ASSUME EditorInv, Ordered, LoseRequest, UNCHANGED <<missed, editorVars>>
  PROVE  EditorInv'
<1>1. PICK i \in ToServe : calls' = [calls EXCEPT ![i].answer = Failed]
  BY DEF LoseRequest
<1>2. PICK m \in Nat : Served(m)
  BY DEF EditorInv
<1>3. i \in DOMAIN calls /\ Queue /\ Failed # Waiting
  BY <1>1, RequestAssumption DEF ToServe, EditorInv
<1>4. /\ Queue' /\ Len(calls') = Len(calls)
      /\ \A k \in DOMAIN calls : calls'[k].op = calls[k].op
      /\ \A k \in DOMAIN calls : k # i => calls'[k] = calls[k]
      /\ calls'[i] = [op |-> calls[i].op, answer |-> Failed]
  BY <1>1, <1>3, AfterServe
<1>5. Served(m + 1)'
  BY <1>1, <1>2, <1>3, NextServed
<1>6. DOMAIN calls' = DOMAIN calls /\ calls'[i].answer = Failed
  BY <1>3, <1>4, QueueShape, LenProperties DEF Queue
<1>7. ~Reliable'
  BY <1>3, <1>6 DEF Reliable
<1>8. EditorTypes' /\ EditorIdle'
  <2>1. ASSUME NEW k \in DOMAIN calls'
        PROVE  /\ calls'[k].op.kind \in {"file", "save"} /\ calls'[k].op.text \in Texts
               /\ calls'[k].op.mounting \in 0..opened'
               /\ IsSave(k)' => calls'[k].op.title \in Headings
               /\ ~IsSave(k)' /\ calls'[k].answer \notin {Waiting, Failed} => calls'[k].answer \in Answers
    BY <1>4, <1>6 DEF editorVars, EditorInv, EditorTypes, IsSave
  <2> QED BY <2>1 DEF editorVars, EditorInv, EditorTypes, EditorIdle
<1> QED BY <1>2, <1>4, <1>5, <1>7, <1>8 DEF EditorInv

LEMMA ReopenKeeps ==
  ASSUME EditorInv, OpenEditor
  PROVE  EditorInv'
<1>1. PICK op : op = [EditorOp("file", Blank, None) EXCEPT !.mounting = opened']
  OBVIOUS
<1>2. PICK n \in Nat : n = Len(calls)
  BY QueueShape DEF EditorInv
<1>3. /\ mounted' = TRUE /\ opened' = opened + 1 /\ loading' = TRUE /\ readOnly' = FALSE
      /\ editorMode' = "wysiwyg" /\ source' = Blank /\ html' = Blank /\ lastSaved' = Blank
      /\ originalTitle' = "Untitled" /\ timer' = None /\ Send(op)
      /\ UNCHANGED <<versions, missed, srvText, srvTitle, srvMode>>
  BY <1>1 DEF OpenEditor, editorRest
<1>4. op.kind = "file" /\ op.text \in Texts /\ op.mounting = opened' /\ Blank \in Texts
  BY <1>1 DEF EditorOp, Blank, Text, Texts
<1>5. opened \in Nat /\ opened' \in Nat
  BY <1>3 DEF EditorInv, EditorTypes
<1>6. /\ Queue' /\ Len(calls') = n + 1 /\ DOMAIN calls = 1..n /\ DOMAIN calls' = 1..(n + 1)
      /\ \A k \in 1..n : calls'[k] = calls[k]
      /\ calls'[n + 1].op = op /\ calls'[n + 1].answer = Waiting
  <2>1. /\ Queue' /\ Len(calls') = n + 1
        /\ \A k \in 1..n : calls'[k] = calls[k]
        /\ calls'[n + 1] = [op |-> op, answer |-> Waiting]
    BY <1>2, <1>3, AfterSend DEF EditorInv
  <2>2. DOMAIN calls' = 1..Len(calls')
    BY <2>1, LenProperties DEF Queue
  <2> QED BY <1>2, <2>1, <2>2, QueueShape DEF EditorInv
<1>7. \A k \in 1..n : /\ IsSave(k)' <=> IsSave(k)
                      /\ Unsaved(k)' <=> Unsaved(k)
                      /\ ~IsLoad(k)'
  <2>1. \A k \in 1..n : calls[k].op.mounting \in 0..opened
    BY <1>6 DEF EditorInv, EditorTypes
  <2> QED BY <1>3, <1>5, <1>6, <2>1 DEF IsSave, Unsaved, IsLoad
<1>8. ~Unsaved(n + 1)' /\ ~IsSave(n + 1)' /\ IsLoad(n + 1)'
  BY <1>4, <1>6 DEF IsSave, Unsaved, IsLoad
<1>9. \E m \in Nat : Served(m)'
  <2>1. PICK m \in Nat : Served(m)
    BY DEF EditorInv
  <2>2. \A k \in 1..1 : calls'[Len(calls) + k].answer = Waiting
    BY <1>2, <1>6
  <2>3. Served(m)'
    BY <1>2, <1>6, <2>1, <2>2, SentServed DEF EditorInv
  <2> QED BY <2>3
<1>10. EditorTypes' /\ EditorIdle'
  <2>1. ASSUME NEW k \in DOMAIN calls'
        PROVE  /\ calls'[k].op.kind \in {"file", "save"} /\ calls'[k].op.text \in Texts
               /\ calls'[k].op.mounting \in 0..opened'
               /\ IsSave(k)' => calls'[k].op.title \in Headings
               /\ ~IsSave(k)' /\ calls'[k].answer \notin {Waiting, Failed} => calls'[k].answer \in Answers
    <3>1. CASE k \in 1..n
      BY <1>3, <1>5, <1>6, <1>7, <3>1 DEF EditorInv, EditorTypes
    <3>2. CASE k = n + 1
      BY <1>4, <1>5, <1>6, <1>8, <3>2
    <3> QED BY <1>6, <3>1, <3>2
  <2>2. "Untitled" \in Headings
    BY DEF Headings
  <2> QED BY <1>3, <1>4, <1>5, <2>1, <2>2 DEF EditorInv, EditorTypes, EditorIdle
<1>11. ASSUME Reliable' PROVE \E t \in Texts : Following(t)'
  <2>1. Reliable
    BY <1>3, <1>6, <1>11 DEF Reliable
  <2>2. PICK t \in Texts : Following(t)
    BY <2>1 DEF EditorInv
  <2>3. LastSent(t)'
    BY <1>3, <1>6, <1>7, <1>8, <2>2 DEF Following, LastSent
  <2>4. \A k \in DOMAIN calls' : IsSave(k)' => Rank(calls'[k].op.text) <= Rank(t)
    BY <1>6, <1>7, <1>8, <2>2 DEF Following
  <2>5. LoadIsDue(t)'
    <3>1. n + 1 \in DOMAIN calls' /\ \A j \in DOMAIN calls' : j \in 1..n \/ j = n + 1
      BY <1>6
    <3>2. \A j \in DOMAIN calls' : (IsSave(j)' => j < n + 1) /\ (IsLoad(j)' => j = n + 1)
      BY <1>7, <1>8, <3>1
    <3> QED BY <1>6, <1>8, <3>1, <3>2 DEF LoadIsDue
  <2> QED BY <1>3, <2>2, <2>3, <2>4, <2>5 DEF Following
<1> QED BY <1>6, <1>9, <1>10, <1>11 DEF EditorInv

LEMMA AnswerKeeps ==
  ASSUME EditorInv, Ordered, EditorAnswer
  PROVE  EditorInv'
<1>1. PICK m \in Nat : Served(m)
  BY DEF EditorInv
<1>2. PICK i \in ToAnswer :
        /\ IF calls[i].op.mounting # opened \/ ~mounted
           THEN UNCHANGED <<loading, source, html, fileRefs, timer, saveStatus>>
           ELSE IF calls[i].op.kind = "file" THEN loadFile(i) ELSE Saved(i)
        /\ missed' = (missed \/ ~ok(i)) /\ Answered(i, <<>>)
  BY DEF EditorAnswer
<1>3. UNCHANGED <<srvText, srvTitle, srvMode, opened, mounted, editorMode, versions>>
  BY DEF EditorAnswer, srvEditorVars
<1>4. /\ i = 1 /\ 1 \in DOMAIN calls /\ m >= 1 /\ calls[1].answer # Waiting
      /\ Served(m - 1)' /\ m - 1 \in Nat
  BY <1>1, <1>2, NextAnswered DEF EditorInv
<1>5. PICK n \in Nat : n = Len(calls)
  BY QueueShape DEF EditorInv
<1>6. /\ Queue' /\ DOMAIN calls = 1..n /\ DOMAIN calls' = 1..(n - 1) /\ n >= 1
      /\ \A k \in 1..(n - 1) : calls'[k] = calls[k + 1] /\ k + 1 \in 1..n /\ k + 1 # 1
      /\ \A k \in 1..n : k # 1 => k - 1 \in 1..(n - 1) /\ (k - 1) + 1 = k
  <2>1. /\ Queue' /\ Len(calls') = n - 1
        /\ \A k \in 1..(n - 1) : calls'[k] = calls[k + 1]
    BY <1>2, <1>4, <1>5, AfterAnswer DEF EditorInv
  <2>2. DOMAIN calls' = 1..Len(calls') /\ DOMAIN calls = 1..n
    BY <1>5, <2>1, QueueShape, LenProperties DEF Queue, EditorInv
  <2> QED BY <1>4, <2>1, <2>2
<1>7. \A k \in 1..(n - 1) : /\ IsSave(k)' <=> IsSave(k + 1)
                            /\ Unsaved(k)' <=> Unsaved(k + 1)
                            /\ IsLoad(k)' <=> IsLoad(k + 1)
  BY <1>3, <1>6 DEF IsSave, Unsaved, IsLoad
<1>8. \/ /\ UNCHANGED <<loading, source, html, lastSaved, originalTitle, readOnly, timer>>
         /\ ~(mounted /\ IsLoad(1))
      \/ mounted /\ IsLoad(1) /\ ok(1) /\ loadFile(1)
      \/ /\ mounted /\ IsLoad(1) /\ ~ok(1) /\ loading' = FALSE
         /\ UNCHANGED <<source, html, lastSaved, originalTitle, readOnly, timer>>
      \/ /\ mounted /\ IsSave(1) /\ ok(1) /\ lastSaved' = calls[1].op.text
         /\ UNCHANGED <<loading, source, html, originalTitle, readOnly, timer>>
  <2>1. calls[1].op.kind \in {"file", "save"}
    BY <1>4 DEF EditorInv, EditorTypes
  <2>2. CASE calls[1].op.mounting # opened \/ ~mounted
    BY <1>2, <1>4, <2>2 DEF fileRefs, IsLoad
  <2>3. CASE ~(calls[1].op.mounting # opened \/ ~mounted) /\ calls[1].op.kind = "file"
    <3>1. mounted /\ IsLoad(1) /\ loadFile(1)
      BY <1>2, <1>4, <2>3 DEF IsLoad
    <3> QED BY <3>1 DEF loadFile, fileRefs
  <2>4. CASE ~(calls[1].op.mounting # opened \/ ~mounted) /\ calls[1].op.kind = "save"
    <3>1. mounted /\ IsSave(1) /\ Saved(1) /\ ~IsLoad(1)
      BY <1>2, <1>4, <2>4 DEF IsSave, IsLoad
    <3> QED BY <3>1 DEF Saved
  <2> QED BY <2>1, <2>2, <2>3, <2>4
<1>9. ASSUME mounted, IsLoad(1), ok(1), loadFile(1)
      PROVE  \E file \in Answers :
               /\ file = calls[1].answer /\ file.text \in Texts /\ file.title \in Headings
               /\ source' = file.text /\ html' = Normal(file.text) /\ lastSaved' = file.text
               /\ originalTitle' = file.title /\ html' \in Texts /\ loading' = FALSE
               /\ timer' = IF readOnly' \/ html' = file.text THEN None ELSE html'
  <2>1. calls[1].answer \in Answers
    <3>1. ~IsSave(1)
      BY <1>9 DEF IsLoad, IsSave
    <3> QED BY <1>4, <1>9, <3>1 DEF EditorInv, EditorTypes, ok
  <2>2. PICK file \in Answers : file = calls[1].answer
    BY <2>1
  <2>3. file.text \in Texts /\ file.title \in Headings
    BY DEF Answers
  <2>4. Normal(file.text) \in Texts
    BY <2>3, RankOrders
  <2> QED BY <1>9, <2>2, <2>3, <2>4 DEF loadFile, Rearmed
<1>10. EditorTypes' /\ EditorIdle'
  <2>1. ASSUME NEW k \in DOMAIN calls'
        PROVE  /\ calls'[k].op.kind \in {"file", "save"} /\ calls'[k].op.text \in Texts
               /\ calls'[k].op.mounting \in 0..opened'
               /\ IsSave(k)' => calls'[k].op.title \in Headings
               /\ ~IsSave(k)' /\ calls'[k].answer \notin {Waiting, Failed} => calls'[k].answer \in Answers
    BY <1>3, <1>6, <1>7 DEF EditorInv, EditorTypes
  <2>2. source' \in Texts /\ html' \in Texts /\ lastSaved' \in Texts /\ originalTitle' \in Headings
    BY <1>4, <1>8, <1>9 DEF EditorInv, EditorTypes
  <2>3. timer' \in Texts \cup {None} /\ EditorIdle'
    <3>1. timer \in Texts \cup {None} /\ EditorIdle
      BY DEF EditorInv, EditorTypes
    <3>2. CASE UNCHANGED <<loading, source, html, lastSaved, originalTitle, readOnly, timer>>
      BY <1>3, <3>1, <3>2 DEF EditorIdle
    <3>3. CASE mounted /\ IsLoad(1) /\ ok(1) /\ loadFile(1)
      <4>1. /\ mounted' /\ ~loading' /\ timer' \in {None, html'} /\ html' \in Texts
            /\ readOnly' => timer' = None
        BY <1>3, <1>9, <3>3
      <4> QED BY <4>1 DEF EditorIdle
    <3>4. CASE /\ mounted /\ IsLoad(1) /\ ~ok(1) /\ loading' = FALSE
               /\ UNCHANGED <<source, html, lastSaved, originalTitle, readOnly, timer>>
      BY <1>3, <3>1, <3>4 DEF EditorIdle
    <3>5. CASE /\ mounted /\ IsSave(1) /\ ok(1) /\ lastSaved' = calls[1].op.text
               /\ UNCHANGED <<loading, source, html, originalTitle, readOnly, timer>>
      BY <1>3, <3>1, <3>5 DEF EditorIdle
    <3> QED BY <1>8, <3>2, <3>3, <3>4, <3>5
  <2> QED BY <1>3, <2>1, <2>2, <2>3 DEF EditorInv, EditorTypes
<1>11. ASSUME Reliable' PROVE \E t \in Texts : Following(t)'
  <2>1. Reliable /\ ok(1)
    <3>1. Reliable
      BY <1>2, <1>4, <1>11, StaysReliable DEF EditorInv
    <3> QED BY <1>4, <3>1 DEF Reliable, ok
  <2>2. PICK t \in Texts : Following(t)
    BY <2>1 DEF EditorInv
  <2>3. LastSent(t)'
    <3>1. ~Unsaved(1)
      BY <1>4 DEF Unsaved
    <3>2. CASE t = srvText /\ \A k \in DOMAIN calls : ~Unsaved(k)
      BY <1>3, <1>6, <1>7, <3>2 DEF LastSent
    <3>3. CASE \E k \in DOMAIN calls : /\ Unsaved(k) /\ t = calls[k].op.text
                                       /\ \A j \in DOMAIN calls : Unsaved(j) => j <= k
      <4>1. PICK k \in DOMAIN calls : /\ Unsaved(k) /\ t = calls[k].op.text
                                      /\ \A j \in DOMAIN calls : Unsaved(j) => j <= k
        BY <3>3
      <4>2. k - 1 \in 1..(n - 1) /\ (k - 1) + 1 = k
        BY <1>6, <3>1, <4>1
      <4>3. Unsaved(k - 1)' /\ t = calls'[k - 1].op.text
        BY <1>6, <1>7, <4>1, <4>2
      <4>4. ASSUME NEW j \in DOMAIN calls', Unsaved(j)' PROVE j <= k - 1
        <5>1. j + 1 <= k
          BY <1>6, <1>7, <4>1, <4>4
        <5> QED BY <1>6, <4>1, <5>1
      <4> QED BY <1>6, <4>2, <4>3, <4>4 DEF LastSent
    <3> QED BY <2>2, <3>2, <3>3 DEF Following, LastSent
  <2>4. \A k \in DOMAIN calls' : IsSave(k)' => Rank(calls'[k].op.text) <= Rank(t)
    BY <1>6, <1>7, <2>2 DEF Following
  <2>5. mounted' /\ loading' => LoadIsDue(t)'
    <3> SUFFICES ASSUME mounted', loading' PROVE LoadIsDue(t)'
      OBVIOUS
    <3>1. mounted /\ loading /\ ~IsLoad(1)
      <4>1. ~IsLoad(1)
        BY <1>3, <1>8, <1>9 DEF IsLoad, IsSave
      <4> QED BY <1>3, <1>8, <1>9, <4>1
    <3>2. PICK k \in DOMAIN calls :
            /\ IsLoad(k)
            /\ \A j \in DOMAIN calls : (IsSave(j) => j < k) /\ (IsLoad(j) => j = k)
            /\ calls[k].answer # Waiting => calls[k].answer.text = t
      BY <2>2, <3>1 DEF Following, LoadIsDue
    <3>3. k - 1 \in 1..(n - 1) /\ (k - 1) + 1 = k
      BY <1>6, <3>1, <3>2
    <3>4. IsLoad(k - 1)' /\ (calls'[k - 1].answer # Waiting => calls'[k - 1].answer.text = t)
      BY <1>6, <1>7, <3>2, <3>3
    <3>5. ASSUME NEW j \in DOMAIN calls'
          PROVE  (IsSave(j)' => j < k - 1) /\ (IsLoad(j)' => j = k - 1)
      <4>1. (IsSave(j)' => j + 1 < k) /\ (IsLoad(j)' => j + 1 = k)
        BY <1>6, <1>7, <3>2
      <4> QED BY <1>6, <3>2, <4>1
    <3> QED BY <1>6, <3>3, <3>4, <3>5 DEF LoadIsDue
  <2>6. mounted' /\ ~loading' => \A k \in DOMAIN calls' : ~IsLoad(k)'
    <3> SUFFICES ASSUME mounted', ~loading', NEW k \in DOMAIN calls', IsLoad(k)' PROVE FALSE
      OBVIOUS
    <3>1. IsLoad(k + 1) /\ k + 1 \in DOMAIN calls /\ k + 1 # 1 /\ mounted
      BY <1>3, <1>6, <1>7
    <3>2. loading
      BY <2>2, <3>1 DEF Following
    <3>3. IsLoad(1)
      BY <1>8, <3>2
    <3> QED BY <1>4, <2>2, <3>1, <3>2, <3>3 DEF Following, LoadIsDue
  <2>7. ASSUME mounted', ~loading', ~readOnly' PROVE InStep(t)'
    <3>1. CASE UNCHANGED <<loading, source, html, lastSaved, originalTitle, readOnly, timer>>
      BY <1>3, <2>2, <2>7, <3>1 DEF Following, InStep, Shown
    <3>2. CASE mounted /\ IsLoad(1) /\ ok(1) /\ loadFile(1)
      <4>1. loading
        BY <1>4, <2>2, <3>2 DEF Following
      <4>2. calls[1].answer.text = t /\ editorMode' = "wysiwyg"
        <5>1. LoadIsDue(t)
          BY <2>2, <3>2, <4>1 DEF Following
        <5> QED BY <1>3, <1>4, <3>2, <4>1, <5>1 DEF LoadIsDue, EditorInv, EditorIdle
      <4>3. /\ lastSaved' = t /\ html' = Normal(t) /\ Shown' = Normal(t)
            /\ timer' = IF Normal(t) = t THEN None ELSE Normal(t)
        BY <1>9, <2>7, <3>2, <4>2 DEF Shown
      <4>4. /\ Rank(t) \in Nat /\ Rank(t) <= Rank(Normal(t)) /\ Normal(t).version = t.version
            /\ t.version <= versions' /\ Normal(t) \in Texts
        BY <1>3, <2>2, RankOrders DEF Following
      <4>5. Rank(lastSaved') <= Rank(t) /\ Rank(t) <= Rank(Shown') /\ Shown'.version <= versions'
        BY <4>3, <4>4
      <4>6. IF timer' = None THEN Shown' = t ELSE timer' = Shown'
        BY <4>3, <4>4, EditorAssumption
      <4> QED BY <4>5, <4>6 DEF InStep
    <3>3. CASE /\ mounted /\ IsSave(1) /\ ok(1) /\ lastSaved' = calls[1].op.text
               /\ UNCHANGED <<loading, source, html, originalTitle, readOnly, timer>>
      <4>1. InStep(t) /\ Shown' = Shown
        BY <1>3, <2>2, <2>7, <3>3 DEF Following, Shown
      <4>2. Rank(lastSaved') <= Rank(t)
        BY <1>4, <2>2, <3>3 DEF Following
      <4> QED BY <1>3, <3>3, <4>1, <4>2 DEF InStep
    <3> QED BY <1>8, <2>1, <3>1, <3>2, <3>3
  <2>8. t.version <= versions'
    BY <1>3, <2>2 DEF Following
  <2> QED BY <2>3, <2>4, <2>5, <2>6, <2>7, <2>8 DEF Following
<1> QED BY <1>4, <1>6, <1>10, <1>11 DEF EditorInv

LEMMA EditorKeeps ==
  ASSUME EditorInv, Ordered, ~Retype, EditorNext
  PROVE  EditorInv'
<1>1. CASE ServeEditor
  BY <1>1, EditorServed
<1>2. CASE Type \/ toggleMode \/ doSave
  BY <1>2, TypeKeeps, ToggleKeeps, SaveKeeps
<1>3. CASE EditorAnswer
  BY <1>3, AnswerKeeps
<1>4. CASE CloseEditor \/ RenameFile \/ OpenEditor
  BY <1>4, CloseKeeps, ReopenKeeps
<1>5. CASE LoseRequest /\ UNCHANGED <<acts, missed, editorVars>>
  BY <1>5, LoseKeeps
<1> QED BY <1>1, <1>2, <1>3, <1>4, <1>5 DEF EditorNext

-----------------------------------------------------------------------------
(* The files of the session.                                                *)

View == [scratch |-> scratchFiles, accessed |-> accessed, edits |-> edits, plan |-> plan]

\* What a view becomes when the answer of a request that did not fail is handled.
Handled(c, view) ==
  [scratch  |-> CASE c.op.kind \in {"scratch", "pin"} -> c.answer
                  [] c.op.kind = "create" -> AfterCreate(view.scratch, c.answer)
                  [] c.op.kind = "rename" -> AfterRename(view.scratch, c.op.arg.id, c.op.arg.title)
                  [] c.op.kind = "delete" -> AfterDelete(view.scratch, c.op.arg.id)
                  [] OTHER                -> view.scratch,
   accessed |-> IF c.op.kind = "messages" THEN c.answer ELSE view.accessed,
   edits    |-> IF c.op.kind = "edits" THEN c.answer ELSE view.edits,
   plan     |-> IF c.op.kind = "plan" THEN c.answer ELSE view.plan]

\* A request of such a kind has not reached the server yet.
Due(kinds) == \E k \in DOMAIN calls : calls[k].answer = Waiting /\ calls[k].op.kind \in kinds

\* A view is the server's, but for what is asked again.
Agrees(view) ==
  /\ view.scratch = ScratchList \/ Due({"scratch", "pin"})
  /\ view.accessed = srvFiles \/ Due({"messages"})
  /\ view.edits = srvFiles \/ Due({"edits"})
  /\ view.plan = srvPlan \/ Due({"plan"})

\* The page's view, and what it becomes as the first m answers are handled.
Trace(m, v) == v[0] = View /\ \A k \in 1..m : v[k] = Handled(calls[k], v[k - 1])

Kinds == {"messages", "plan", "edits", "scratch", "pin", "create", "rename", "delete", "open"}

FileTypes ==
  /\ srvFiles \subseteq Files /\ srvPlan \in Nat /\ scratchFiles \subseteq Rows
  /\ srvScratch \in [ScratchIds -> Titles \cup {"Untitled", None}]
  /\ \A k \in DOMAIN calls :
       /\ calls[k].op.kind \in Kinds
       /\ calls[k].op.kind = "rename" => calls[k].op.arg.id \in ScratchIds
                                         /\ calls[k].op.arg.title \in Titles
       /\ calls[k].answer \notin {Waiting, Failed} =>
            /\ calls[k].op.kind = "create" => calls[k].answer \in ScratchIds
            /\ calls[k].op.kind \in {"scratch", "pin"} => calls[k].answer \subseteq Rows

\* What is selected is a scratch file that is listed, or a file of the tree.
Selection ==
  /\ selectedScratchId # None => IsListed(scratchFiles, selectedScratchId)
  /\ selectedScratchId = None => selectedPath = First(tree) \/ selectedPath \in tree

FilesInv ==
  /\ Queue /\ (\E m \in Nat : Served(m))
  /\ FileTypes /\ Selection
  /\ Reliable => \E m \in Nat : \E v : Served(m) /\ Trace(m, v) /\ Agrees(v[m])

\* The effects leave something selected that there is.
LEMMA SelectKeeps ==
  ASSUME NEW path, NEW id, Select(path, id, scratchFiles', tree')
  PROVE  Selection'
<1> DEFINE kept == IF id # None /\ IsListed(scratchFiles', id) THEN id ELSE None
<1>1. /\ selectedScratchId' = kept
      /\ selectedPath' = IF kept # None \/ path \in tree' THEN path ELSE First(tree')
  BY DEF Select
<1>2. IsListed(scratchFiles, selectedScratchId)' = IsListed(scratchFiles', selectedScratchId')
  BY DEF IsListed
<1>3. First(tree)' = First(tree')
  BY DEF First
<1> QED BY <1>1, <1>2, <1>3 DEF Selection

\* Requests that are sent, and what else happens then, leave the view as it was.
LEMMA FilesAsk ==
  ASSUME FilesInv, Queue', NEW n \in Nat, Len(calls') = Len(calls) + n,
         \A k \in 1..Len(calls) : calls'[k] = calls[k],
         \A k \in 1..n : calls'[Len(calls) + k].answer = Waiting,
         FileTypes', Selection', View' = View, missed' = missed,
         \A view : Agrees(view) => Agrees(view)'
  PROVE  FilesInv'
<1>1. DOMAIN calls = 1..Len(calls) /\ DOMAIN calls' = 1..Len(calls') /\ Len(calls) \in Nat
  BY QueueShape, LenProperties DEF FilesInv, Queue
<1>2. \A m : Served(m) => Served(m)'
  BY SentServed DEF FilesInv
<1>3. Reliable' => Reliable
  BY <1>1 DEF Reliable
<1>4. ASSUME NEW m \in Nat, NEW v, Served(m), Trace(m, v) PROVE Trace(m, v)'
  <2>1. \A k \in 1..m : k \in 1..Len(calls)
    BY <1>1, <1>4 DEF Served
  <2> QED BY <1>4, <2>1 DEF Trace
<1> QED BY <1>2, <1>3, <1>4 DEF FilesInv

\* What is due stays due while requests are sent.
LEMMA DueStays ==
  ASSUME Queue, Queue', NEW n \in Nat, Len(calls') = Len(calls) + n,
         \A k \in 1..Len(calls) : calls'[k] = calls[k], NEW kinds, Due(kinds)
  PROVE  Due(kinds)'
<1>1. DOMAIN calls = 1..Len(calls) /\ DOMAIN calls' = 1..Len(calls') /\ Len(calls) \in Nat
  BY QueueShape, LenProperties DEF Queue
<1> QED BY <1>1 DEF Due

\* What the user does without a request.
LEMMA FilesAlone ==
  ASSUME FilesInv, Selection', UNCHANGED <<calls, missed, srvScratch, srvFiles, srvPlan,
                                           scratchFiles, accessed, edits, plan>>
  PROVE  FilesInv'
<1>1. Queue' /\ Len(calls) \in Nat /\ Len(calls') = Len(calls) + 0
  BY QueueShape DEF FilesInv, Queue
<1>2. FileTypes'
  BY DEF FilesInv, FileTypes
<1>3. View' = View
  BY DEF View
<1>4. ASSUME NEW view, Agrees(view) PROVE Agrees(view)'
  BY <1>4 DEF Agrees, Due, ScratchList, Scratch
<1>5. /\ \A k \in 1..Len(calls) : calls'[k] = calls[k]
      /\ \A k \in 1..0 : calls'[Len(calls) + k].answer = Waiting
  OBVIOUS
<1>6. missed' = missed /\ 0 \in Nat
  OBVIOUS
<1> QED BY <1>1, <1>2, <1>3, <1>4, <1>5, <1>6, FilesAsk

\* What the user asks for.
LEMMA FilesSend ==
  ASSUME FilesInv, NEW op, Send(op), op.kind \in Kinds \ {"messages", "plan", "edits", "scratch", "pin"},
         op.kind = "rename" => op.arg.id \in ScratchIds /\ op.arg.title \in Titles,
         UNCHANGED <<missed, window, srvScratch, srvFiles, srvPlan, scratchFiles, accessed, edits, plan,
                     selectedPath, selectedScratchId>>
  PROVE  FilesInv'
<1>1. /\ Queue' /\ Len(calls') = Len(calls) + 1
      /\ \A k \in 1..Len(calls) : calls'[k] = calls[k]
      /\ calls'[Len(calls) + 1] = [op |-> op, answer |-> Waiting]
  BY AfterSend DEF FilesInv
<1>2. DOMAIN calls = 1..Len(calls) /\ DOMAIN calls' = 1..Len(calls') /\ Len(calls) \in Nat
  BY <1>1, QueueShape, LenProperties DEF FilesInv, Queue
<1>3. calls'[Len(calls) + 1].op = op /\ calls'[Len(calls) + 1].answer = Waiting
  BY <1>1
<1>4. FileTypes'
  <2>1. ASSUME NEW k \in DOMAIN calls'
        PROVE  /\ calls'[k].op.kind \in Kinds
               /\ calls'[k].op.kind = "rename" => calls'[k].op.arg.id \in ScratchIds
                                                 /\ calls'[k].op.arg.title \in Titles
               /\ calls'[k].answer \notin {Waiting, Failed} =>
                    /\ calls'[k].op.kind = "create" => calls'[k].answer \in ScratchIds
                    /\ calls'[k].op.kind \in {"scratch", "pin"} => calls'[k].answer \subseteq Rows
    <3>1. CASE k \in 1..Len(calls)
      BY <1>1, <1>2, <3>1 DEF FilesInv, FileTypes
    <3>2. CASE k = Len(calls) + 1
      BY <1>3, <3>2
    <3> QED BY <1>1, <1>2, <3>1, <3>2
  <2> QED BY <2>1 DEF FilesInv, FileTypes
<1>5. Selection' /\ View' = View
  BY DEF FilesInv, Selection, View, tree, IsListed, First
<1>6. ASSUME NEW view, Agrees(view) PROVE Agrees(view)'
  <2>1. \A kinds : Due(kinds) => Due(kinds)'
    BY <1>1, <1>2, DueStays DEF FilesInv
  <2>2. ScratchList' = ScratchList
    BY DEF ScratchList, Scratch
  <2> QED BY <1>6, <2>1, <2>2 DEF Agrees
<1>7. \A k \in 1..1 : calls'[Len(calls) + k].answer = Waiting
  BY <1>3
<1> QED BY <1>1, <1>4, <1>5, <1>6, <1>7, FilesAsk

-----------------------------------------------------------------------------
(* What the server does.                                                    *)

LEMMA FreshIsNew ==
  ASSUME Scratch # ScratchIds
  PROVE  Fresh \in ScratchIds /\ Fresh \notin Scratch
<1> DEFINE S == ScratchIds \ Scratch
<1>1. S \in SUBSET Nat /\ S # {}
  BY FileAssumption DEF Scratch
<1>2. \E x \in S : \A y \in S : x <= y
  BY <1>1, LeastNat
<1> QED BY <1>2 DEF Fresh

\* A file that is created, renamed or deleted is one row of the server's list.
LEMMA CreateChanges ==
  ASSUME srvScratch \in [ScratchIds -> Titles \cup {"Untitled", None}],
         NEW id \in ScratchIds, srvScratch[id] = None, srvScratch' = [srvScratch EXCEPT ![id] = "Untitled"]
  PROVE  ScratchList' = AfterCreate(ScratchList, id)
<1>1. None # "Untitled" /\ DOMAIN srvScratch = ScratchIds
  BY FileAssumption
<1>2. \A row : row \in ScratchList <=> \E i \in ScratchIds : /\ srvScratch[i] # None
                                                            /\ row = [id |-> i, title |-> srvScratch[i]]
  BY DEF ScratchList, Scratch
<1>3. \A row : row \in ScratchList' <=> \E i \in ScratchIds : /\ srvScratch'[i] # None
                                                             /\ row = [id |-> i, title |-> srvScratch'[i]]
  BY DEF ScratchList, Scratch
<1>4. \A i \in ScratchIds : srvScratch'[i] = IF i = id THEN "Untitled" ELSE srvScratch[i]
  BY <1>1
<1>5. ASSUME NEW row PROVE row \in ScratchList' <=> row \in AfterCreate(ScratchList, id)
  BY <1>1, <1>2, <1>3, <1>4 DEF AfterCreate
<1> QED BY <1>5

LEMMA DeleteChanges ==
  ASSUME srvScratch \in [ScratchIds -> Titles \cup {"Untitled", None}],
         NEW id, srvScratch' = [srvScratch EXCEPT ![id] = None]
  PROVE  ScratchList' = AfterDelete(ScratchList, id)
<1>1. None # "Untitled" /\ DOMAIN srvScratch = ScratchIds
  BY FileAssumption
<1>2. \A row : row \in ScratchList <=> \E i \in ScratchIds : /\ srvScratch[i] # None
                                                            /\ row = [id |-> i, title |-> srvScratch[i]]
  BY DEF ScratchList, Scratch
<1>3. \A row : row \in ScratchList' <=> \E i \in ScratchIds : /\ srvScratch'[i] # None
                                                             /\ row = [id |-> i, title |-> srvScratch'[i]]
  BY DEF ScratchList, Scratch
<1>4. \A i \in ScratchIds : srvScratch'[i] = IF i = id THEN None ELSE srvScratch[i]
  BY <1>1
<1>5. ASSUME NEW row PROVE row \in ScratchList' <=> row \in AfterDelete(ScratchList, id)
  BY <1>1, <1>2, <1>3, <1>4 DEF AfterDelete
<1> QED BY <1>5

LEMMA RenameChanges ==
  ASSUME srvScratch \in [ScratchIds -> Titles \cup {"Untitled", None}],
         NEW id \in ScratchIds, NEW title \in Titles, srvScratch[id] # None,
         srvScratch' = [srvScratch EXCEPT ![id] = title]
  PROVE  ScratchList' = AfterRename(ScratchList, id, title)
<1>1. title # None /\ DOMAIN srvScratch = ScratchIds
  BY FileAssumption
<1>2. \A row : row \in ScratchList <=> \E i \in ScratchIds : /\ srvScratch[i] # None
                                                            /\ row = [id |-> i, title |-> srvScratch[i]]
  BY DEF ScratchList, Scratch
<1>3. \A row : row \in ScratchList' <=> \E i \in ScratchIds : /\ srvScratch'[i] # None
                                                             /\ row = [id |-> i, title |-> srvScratch'[i]]
  BY DEF ScratchList, Scratch
<1>4. \A i \in ScratchIds : srvScratch'[i] = IF i = id THEN title ELSE srvScratch[i]
  BY <1>1
<1>5. ASSUME NEW row \in ScratchList' PROVE row \in AfterRename(ScratchList, id, title)
  <2>1. PICK i \in ScratchIds : srvScratch'[i] # None /\ row = [id |-> i, title |-> srvScratch'[i]]
    BY <1>3, <1>5
  <2>2. PICK f : f = [id |-> i, title |-> srvScratch[i]]
    OBVIOUS
  <2>3. f \in ScratchList
    BY <1>2, <1>4, <2>1, <2>2
  <2>4. row = IF f.id = id THEN [f EXCEPT !.title = title] ELSE f
    BY <1>4, <2>1, <2>2
  <2> QED BY <2>3, <2>4 DEF AfterRename
<1>6. ASSUME NEW row \in AfterRename(ScratchList, id, title) PROVE row \in ScratchList'
  <2>1. PICK f \in ScratchList : row = IF f.id = id THEN [f EXCEPT !.title = title] ELSE f
    BY <1>6 DEF AfterRename
  <2>2. PICK i \in ScratchIds : srvScratch[i] # None /\ f = [id |-> i, title |-> srvScratch[i]]
    BY <1>2, <2>1
  <2>3. row = [id |-> i, title |-> srvScratch'[i]] /\ srvScratch'[i] # None
    BY <1>1, <1>4, <2>1, <2>2
  <2> QED BY <1>3, <2>3
<1> QED BY <1>5, <1>6

\* A file that is gone is not renamed.
LEMMA GoneChanges ==
  ASSUME NEW id, NEW title, srvScratch[id] = None
  PROVE  AfterRename(ScratchList, id, title) = ScratchList
<1>1. \A f \in ScratchList : f.id # id
  BY DEF ScratchList, Scratch
<1> QED BY <1>1 DEF AfterRename

LEMMA FilesServed ==
  ASSUME FilesInv, Ordered, ServeFiles
  PROVE  FilesInv'
<1>1. PICK m0 \in Nat : Served(m0)
  BY DEF FilesInv
<1>2. PICK i \in ToServe :
        LET op == calls[i].op
            creates == op.kind = "create" /\ Scratch # ScratchIds
        IN
        /\ Serve(i, CASE op.kind \in {"messages", "edits"} -> srvFiles
                      [] op.kind = "plan"                  -> srvPlan
                      [] op.kind \in {"scratch", "pin"}    -> ScratchList
                      [] op.kind = "create" -> IF creates THEN Fresh ELSE Failed
                      [] OTHER              -> "done")
        /\ srvScratch' = CASE creates -> [srvScratch EXCEPT ![Fresh] = "Untitled"]
                           [] op.kind = "delete" -> [srvScratch EXCEPT ![op.arg.id] = None]
                           [] op.kind = "rename" /\ srvScratch[op.arg.id] # None ->
                                [srvScratch EXCEPT ![op.arg.id] = op.arg.title]
                           [] OTHER -> srvScratch
  BY DEF ServeFiles
<1>3. UNCHANGED <<missed, srvFiles, srvPlan, scratchFiles, accessed, edits, plan, window,
                  selectedPath, selectedScratchId>>
  BY DEF ServeFiles, loaded, selection
<1>4. PICK op : op = calls[i].op
  OBVIOUS
<1>5. PICK id : id = Fresh
  OBVIOUS
<1>6. /\ Queue /\ i \in DOMAIN calls /\ calls[i].answer = Waiting /\ op.kind \in Kinds
      /\ op.kind = "rename" => op.arg.id \in ScratchIds /\ op.arg.title \in Titles
      /\ Scratch # ScratchIds => id \in ScratchIds /\ id \notin Scratch
  BY <1>2, <1>4, <1>5, FreshIsNew DEF FilesInv, ToServe, FileTypes
<1>7. \E answer : /\ calls' = [calls EXCEPT ![i].answer = answer]
                  /\ \/ answer = Failed
                     \/ /\ op.kind \in {"messages", "edits"} => answer = srvFiles
                        /\ op.kind = "plan" => answer = srvPlan
                        /\ op.kind \in {"scratch", "pin"} => answer = ScratchList
                        /\ op.kind = "create" => Scratch # ScratchIds /\ answer = id
                        /\ op.kind \in {"rename", "delete", "open"} => answer = "done"
  <2>1. \E answer : /\ calls' = [calls EXCEPT ![i].answer = answer]
                    /\ \/ answer = Failed
                       \/ answer = CASE op.kind \in {"messages", "edits"} -> srvFiles
                                     [] op.kind = "plan"                  -> srvPlan
                                     [] op.kind \in {"scratch", "pin"}    -> ScratchList
                                     [] op.kind = "create" ->
                                          IF op.kind = "create" /\ Scratch # ScratchIds THEN id ELSE Failed
                                     [] OTHER              -> "done"
    BY <1>2, <1>4, <1>5 DEF Serve
  <2> QED BY <1>6, <2>1 DEF Kinds
<1>8. PICK answer : /\ calls' = [calls EXCEPT ![i].answer = answer]
                    /\ \/ answer = Failed
                       \/ /\ op.kind \in {"messages", "edits"} => answer = srvFiles
                          /\ op.kind = "plan" => answer = srvPlan
                          /\ op.kind \in {"scratch", "pin"} => answer = ScratchList
                          /\ op.kind = "create" => Scratch # ScratchIds /\ answer = id
                          /\ op.kind \in {"rename", "delete", "open"} => answer = "done"
  BY <1>7
<1>9. srvScratch' = IF op.kind = "create" /\ Scratch # ScratchIds
                    THEN [srvScratch EXCEPT ![id] = "Untitled"]
                    ELSE IF op.kind = "delete" THEN [srvScratch EXCEPT ![op.arg.id] = None]
                    ELSE IF op.kind = "rename" /\ srvScratch[op.arg.id] # None
                    THEN [srvScratch EXCEPT ![op.arg.id] = op.arg.title]
                    ELSE srvScratch
  BY <1>2, <1>4, <1>5
<1>10. ScratchList \subseteq Rows
  <2>1. ASSUME NEW k \in ScratchIds, srvScratch[k] # None
        PROVE  [id |-> k, title |-> srvScratch[k]] \in Rows
    BY <2>1 DEF FilesInv, FileTypes, Rows
  <2> QED BY <2>1 DEF ScratchList, Scratch
<1>11. answer # Waiting
  <2>1. \/ answer = Failed \/ answer = srvFiles \/ answer = srvPlan \/ answer = ScratchList
        \/ answer = "done" \/ answer \in ScratchIds
    BY <1>6, <1>8 DEF Kinds
  <2>2. srvFiles \in SUBSET Files /\ srvPlan \in Nat /\ ScratchList \in SUBSET Rows
    BY <1>10 DEF FilesInv, FileTypes
  <2> QED BY <2>1, <2>2, FileAssumption, RequestAssumption
<1>12. i = m0 + 1 /\ Served(m0 + 1)'
  BY <1>1, <1>6, <1>8, <1>11, NextServed
<1>13. PICK n \in Nat : n = Len(calls)
  BY <1>6, QueueShape
<1>14. /\ Queue' /\ DOMAIN calls = 1..n /\ DOMAIN calls' = 1..n
       /\ \A k \in 1..n : calls'[k].op = calls[k].op
       /\ \A k \in 1..n : k # i => calls'[k] = calls[k]
       /\ calls'[i].answer = answer /\ calls'[i].op = op
  <2>1. /\ Queue' /\ Len(calls') = Len(calls)
        /\ \A k \in DOMAIN calls : calls'[k].op = calls[k].op
        /\ \A k \in DOMAIN calls : k # i => calls'[k] = calls[k]
        /\ calls'[i] = [op |-> calls[i].op, answer |-> answer]
    BY <1>6, <1>8, AfterServe
  <2>2. DOMAIN calls = 1..n /\ DOMAIN calls' = 1..n
    BY <1>6, <1>13, <2>1, QueueShape, LenProperties DEF Queue
  <2> QED BY <1>4, <2>1, <2>2
<1>15. FileTypes' /\ Selection'
  <2>1. srvScratch' \in [ScratchIds -> Titles \cup {"Untitled", None}]
    BY <1>6, <1>9 DEF FilesInv, FileTypes
  <2>2. ASSUME NEW k \in DOMAIN calls'
        PROVE  /\ calls'[k].op.kind \in Kinds
               /\ calls'[k].op.kind = "rename" => calls'[k].op.arg.id \in ScratchIds
                                                 /\ calls'[k].op.arg.title \in Titles
               /\ calls'[k].answer \notin {Waiting, Failed} =>
                    /\ calls'[k].op.kind = "create" => calls'[k].answer \in ScratchIds
                    /\ calls'[k].op.kind \in {"scratch", "pin"} => calls'[k].answer \subseteq Rows
    <3>1. CASE k = i
      BY <1>6, <1>8, <1>10, <1>14, <3>1
    <3>2. CASE k # i
      BY <1>14, <3>2 DEF FilesInv, FileTypes
    <3> QED BY <3>1, <3>2
  <2>3. Selection'
    BY <1>3 DEF FilesInv, Selection, IsListed, tree, First
  <2> QED BY <1>3, <2>1, <2>2, <2>3 DEF FilesInv, FileTypes
<1>16. ASSUME Reliable' PROVE \E m \in Nat : \E v : Served(m)' /\ Trace(m, v)' /\ Agrees(v[m])'
  <2>1. answer # Failed
    BY <1>6, <1>14, <1>16 DEF Reliable
  <2>2. Reliable
    BY <1>3, <1>6, <1>14, <1>16, RequestAssumption DEF Reliable
  <2>3a. PICK m \in Nat : \E v : Served(m) /\ Trace(m, v) /\ Agrees(v[m])
    BY <2>2 DEF FilesInv
  <2>3. PICK v : Served(m) /\ Trace(m, v) /\ Agrees(v[m])
    BY <2>3a
  <2>4. i = m + 1 /\ Served(m + 1)'
    BY <1>6, <1>8, <1>11, <2>3, NextServed
  <2>5. PICK w : w = [k \in 0..(m + 1) |-> IF k = m + 1 THEN Handled(calls'[i], v[m]) ELSE v[k]]
    OBVIOUS
  <2>6. Trace(m + 1, w)'
    <3>1. View' = View /\ w[0] = v[0]
      BY <1>3, <2>5 DEF View
    <3>2. ASSUME NEW k \in 1..(m + 1) PROVE w[k] = Handled(calls'[k], w[k - 1])
      <4>1. CASE k = m + 1
        <5>1. w[k - 1] = v[m] /\ w[k] = Handled(calls'[i], v[m])
          BY <2>5, <4>1
        <5> QED BY <2>4, <4>1, <5>1
      <4>2. CASE k # m + 1
        <5>1. k \in 1..m /\ k - 1 \in 0..m /\ k \in 1..n /\ k # i
          BY <1>6, <1>14, <2>4, <4>2
        <5>2. w[k - 1] = v[k - 1] /\ w[k] = v[k]
          BY <2>5, <5>1
        <5>3. v[k] = Handled(calls[k], v[k - 1]) /\ calls'[k] = calls[k]
          BY <1>14, <2>3, <5>1 DEF Trace
        <5> QED BY <5>2, <5>3
      <4> QED BY <4>1, <4>2
    <3> QED BY <2>3, <3>1, <3>2 DEF Trace
  <2>7. PICK view : view = v[m] /\ Agrees(view)
    BY <2>3
  <2>8. PICK next : next = w[m + 1]
    OBVIOUS
  <2>9. next = Handled(calls'[i], view)
    BY <2>5, <2>7, <2>8
  <2>10. ASSUME NEW kinds, op.kind \notin kinds, Due(kinds) PROVE Due(kinds)'
    BY <1>4, <1>14, <2>10 DEF Due
  <2>11. next.accessed = srvFiles' \/ Due({"messages"})'
    <3>1. next.accessed = IF op.kind = "messages" THEN answer ELSE view.accessed
      BY <1>14, <2>9 DEF Handled
    <3> QED BY <1>3, <1>8, <2>1, <2>7, <2>10, <3>1 DEF Agrees
  <2>12. next.edits = srvFiles' \/ Due({"edits"})'
    <3>1. next.edits = IF op.kind = "edits" THEN answer ELSE view.edits
      BY <1>14, <2>9 DEF Handled
    <3> QED BY <1>3, <1>8, <2>1, <2>7, <2>10, <3>1 DEF Agrees
  <2>13. next.plan = srvPlan' \/ Due({"plan"})'
    <3>1. next.plan = IF op.kind = "plan" THEN answer ELSE view.plan
      BY <1>14, <2>9 DEF Handled
    <3> QED BY <1>3, <1>8, <2>1, <2>7, <2>10, <3>1 DEF Agrees
  <2>14. next.scratch = ScratchList' \/ Due({"scratch", "pin"})'
    <3>1. next.scratch = CASE op.kind \in {"scratch", "pin"} -> answer
                           [] op.kind = "create" -> AfterCreate(view.scratch, answer)
                           [] op.kind = "rename" -> AfterRename(view.scratch, op.arg.id, op.arg.title)
                           [] op.kind = "delete" -> AfterDelete(view.scratch, op.arg.id)
                           [] OTHER              -> view.scratch
      BY <1>14, <2>9 DEF Handled
    <3>2. CASE op.kind \in {"scratch", "pin"}
      <4>1. srvScratch' = srvScratch /\ next.scratch = ScratchList
        BY <1>8, <1>9, <2>1, <3>1, <3>2
      <4> QED BY <4>1 DEF ScratchList, Scratch
    <3>3. CASE op.kind \notin {"scratch", "pin"}
      <4>1. SUFFICES ASSUME view.scratch = ScratchList PROVE next.scratch = ScratchList'
        BY <2>7, <2>10, <3>3 DEF Agrees
      <4>2. srvScratch \in [ScratchIds -> Titles \cup {"Untitled", None}]
        BY DEF FilesInv, FileTypes
      <4>3. CASE op.kind = "create"
        <5>1. id \in ScratchIds /\ srvScratch[id] = None /\ answer = id
          BY <1>6, <1>8, <2>1, <4>3 DEF Scratch
        <5>2. srvScratch' = [srvScratch EXCEPT ![id] = "Untitled"]
          BY <1>8, <1>9, <2>1, <4>3
        <5>3. next.scratch = AfterCreate(ScratchList, id)
          BY <3>1, <4>1, <4>3, <5>1
        <5> QED BY <4>2, <5>1, <5>2, <5>3, CreateChanges
      <4>4. CASE op.kind = "rename"
        <5>1. op.arg.id \in ScratchIds /\ op.arg.title \in Titles
          BY <1>6, <4>4
        <5>2. next.scratch = AfterRename(ScratchList, op.arg.id, op.arg.title)
          BY <3>1, <4>1, <4>4
        <5>3. CASE srvScratch[op.arg.id] # None
          <6>1. srvScratch' = [srvScratch EXCEPT ![op.arg.id] = op.arg.title]
            BY <1>9, <4>4, <5>3
          <6> QED BY <4>2, <5>1, <5>2, <5>3, <6>1, RenameChanges
        <5>4. CASE srvScratch[op.arg.id] = None
          <6>1. srvScratch' = srvScratch
            BY <1>9, <4>4, <5>4
          <6>2. ScratchList' = ScratchList
            BY <6>1 DEF ScratchList, Scratch
          <6> QED BY <5>2, <5>4, <6>2, GoneChanges
        <5> QED BY <5>3, <5>4
      <4>5. CASE op.kind = "delete"
        <5>1. srvScratch' = [srvScratch EXCEPT ![op.arg.id] = None]
          BY <1>9, <4>5
        <5>2. next.scratch = AfterDelete(ScratchList, op.arg.id)
          BY <3>1, <4>1, <4>5
        <5> QED BY <4>2, <5>1, <5>2, DeleteChanges
      <4>6. CASE op.kind \notin {"create", "rename", "delete"}
        <5>1. srvScratch' = srvScratch /\ next.scratch = view.scratch
          BY <1>9, <3>1, <3>3, <4>6
        <5> QED BY <4>1, <5>1 DEF ScratchList, Scratch
      <4> QED BY <4>3, <4>4, <4>5, <4>6
    <3> QED BY <3>2, <3>3
  <2>15. Agrees(next)'
    BY <2>11, <2>12, <2>13, <2>14 DEF Agrees
  <2>16. Agrees(w[m + 1])' /\ m + 1 \in Nat
    BY <2>8, <2>15
  <2> QED BY <2>4, <2>6, <2>16
<1> QED BY <1>12, <1>1, <1>14, <1>15, <1>16 DEF FilesInv

-----------------------------------------------------------------------------
(* What the page does.                                                      *)

\* The rows that the answers leave are rows, and a file that is renamed is listed still.
LEMMA RowsStay ==
  ASSUME NEW list, list \subseteq Rows, NEW id, NEW title
  PROVE  /\ id \in ScratchIds => AfterCreate(list, id) \subseteq Rows
         /\ title \in Titles => AfterRename(list, id, title) \subseteq Rows
         /\ AfterDelete(list, id) \subseteq Rows
         /\ \A other : IsListed(list, other) => IsListed(AfterRename(list, id, title), other)
<1>1. ASSUME id \in ScratchIds PROVE [id |-> id, title |-> "Untitled"] \in Rows
  BY <1>1 DEF Rows
<1>2. ASSUME NEW f \in list
      PROVE  LET g == IF f.id = id THEN [f EXCEPT !.title = title] ELSE f
             IN (title \in Titles => g \in Rows) /\ g.id = f.id
  BY DEF Rows
<1>3. title \in Titles => AfterRename(list, id, title) \subseteq Rows
  BY <1>2 DEF AfterRename
<1>4. ASSUME NEW other, IsListed(list, other) PROVE IsListed(AfterRename(list, id, title), other)
  <2>1. PICK f \in list : f.id = other
    BY <1>4 DEF IsListed
  <2>2. PICK g : g = IF f.id = id THEN [f EXCEPT !.title = title] ELSE f
    OBVIOUS
  <2>3. g \in AfterRename(list, id, title) /\ g.id = other
    BY <1>2, <2>1, <2>2 DEF AfterRename
  <2> QED BY <2>3 DEF IsListed
<1> QED BY <1>1, <1>3, <1>4 DEF AfterCreate, AfterDelete

\* What is handled: the view is what the answer makes of it, its rows are rows, and
\* something is selected that there is.
LEMMA FilesHandled ==
  ASSUME FilesInv, 1 \in DOMAIN calls, calls[1].answer # Waiting, window' = window,
         \/ calls[1].op.kind = "create" /\ Created(1)
         \/ calls[1].op.kind = "rename" /\ Renamed(1)
         \/ calls[1].op.kind = "delete" /\ Deleted(1)
         \/ calls[1].op.kind = "pin" /\ Pinned(1)
         \/ calls[1].op.kind = "open" /\ Opened(1)
         \/ calls[1].op.kind \in {"messages", "plan", "edits", "scratch"} /\ LoadedFiles(1)
  PROVE  /\ ok(1) => View' = Handled(calls[1], View)
         /\ scratchFiles' \subseteq Rows
         /\ Selection'
<1>1. PICK c : c = calls[1]
  OBVIOUS
<1>2. /\ scratchFiles \subseteq Rows
      /\ c.op.kind = "rename" => c.op.arg.title \in Titles
      /\ ok(1) /\ c.op.kind = "create" => c.answer \in ScratchIds
      /\ ok(1) /\ c.op.kind \in {"scratch", "pin"} => c.answer \subseteq Rows
  BY <1>1 DEF FilesInv, FileTypes, ok
<1> DEFINE same == UNCHANGED <<accessed, edits, plan>>
<1>3. CASE c.op.kind = "create" /\ Created(1)
  <2>1. /\ IF ok(1)
           THEN /\ scratchFiles' = AfterCreate(scratchFiles, c.answer)
                /\ Select(None, c.answer, scratchFiles', tree)
           ELSE UNCHANGED <<scratchFiles, selectedPath, selectedScratchId>>
        /\ same
    BY <1>1, <1>3 DEF Created, selection
  <2>2. tree' = tree
    BY <2>1 DEF tree
  <2>3. Selection'
    <3>1. CASE ok(1)
      BY <2>1, <2>2, <3>1, SelectKeeps
    <3>2. CASE ~ok(1)
      BY <2>1, <2>2, <3>2 DEF FilesInv, Selection, First
    <3> QED BY <3>1, <3>2
  <2>4. scratchFiles' \subseteq Rows
    BY <1>2, <1>3, <2>1 DEF AfterCreate, Rows
  <2>5. ok(1) => View' = Handled(c, View)
    BY <1>3, <2>1 DEF View, Handled
  <2> QED BY <1>1, <2>3, <2>4, <2>5
<1>4. CASE c.op.kind = "rename" /\ Renamed(1)
  <2>1. /\ scratchFiles' = IF ok(1) THEN AfterRename(scratchFiles, c.op.arg.id, c.op.arg.title)
                           ELSE scratchFiles
        /\ same /\ UNCHANGED <<selectedPath, selectedScratchId>>
    BY <1>1, <1>4 DEF Renamed, selection
  <2>2. tree' = tree /\ First(tree)' = First(tree)
    BY <2>1 DEF tree, First
  <2>3. Selection'
    <3>1. IsListed(scratchFiles, selectedScratchId) => IsListed(scratchFiles', selectedScratchId)
      BY <1>2, <2>1, RowsStay
    <3>2. IsListed(scratchFiles, selectedScratchId)' <=> IsListed(scratchFiles', selectedScratchId)
      BY <2>1 DEF IsListed
    <3> QED BY <2>1, <2>2, <3>1, <3>2 DEF FilesInv, Selection
  <2>4. scratchFiles' \subseteq Rows
    BY <1>2, <1>4, <2>1, RowsStay
  <2>5. ok(1) => View' = Handled(c, View)
    BY <1>4, <2>1 DEF View, Handled
  <2> QED BY <1>1, <2>3, <2>4, <2>5
<1>5. CASE c.op.kind = "delete" /\ Deleted(1)
  <2>1. /\ scratchFiles' = IF ok(1) THEN AfterDelete(scratchFiles, c.op.arg.id) ELSE scratchFiles
        /\ \E id : Select(selectedPath, id, scratchFiles', tree)
        /\ same
    BY <1>1, <1>5 DEF Deleted
  <2>2. tree' = tree
    BY <2>1 DEF tree
  <2>3. Selection'
    BY <2>1, <2>2, SelectKeeps
  <2>4. scratchFiles' \subseteq Rows
    BY <1>2, <2>1, RowsStay
  <2>5. ok(1) => View' = Handled(c, View)
    BY <1>5, <2>1 DEF View, Handled
  <2> QED BY <1>1, <2>3, <2>4, <2>5
<1>6. CASE c.op.kind = "pin" /\ Pinned(1)
  <2>1. /\ scratchFiles' = IF ok(1) THEN c.answer ELSE {}
        /\ \E path, id : Select(path, id, scratchFiles', tree)
        /\ same
    BY <1>1, <1>6 DEF Pinned
  <2>2. tree' = tree
    BY <2>1 DEF tree
  <2>3. Selection'
    BY <2>1, <2>2, SelectKeeps
  <2>4. scratchFiles' \subseteq Rows
    BY <1>2, <1>6, <2>1
  <2>5. ok(1) => View' = Handled(c, View)
    BY <1>6, <2>1 DEF View, Handled
  <2> QED BY <1>1, <2>3, <2>4, <2>5
<1>7. CASE c.op.kind = "open" /\ Opened(1)
  <2>1. same /\ UNCHANGED <<scratchFiles, selectedPath, selectedScratchId>>
    BY <1>7 DEF Opened, loaded, selection
  <2>2. Selection' /\ scratchFiles' \subseteq Rows
    BY <1>2, <2>1 DEF FilesInv, Selection, tree, First, IsListed
  <2>3. ok(1) => View' = Handled(c, View)
    BY <1>7, <2>1 DEF View, Handled
  <2> QED BY <1>1, <2>2, <2>3
<1>8. CASE c.op.kind \in {"messages", "plan", "edits", "scratch"} /\ LoadedFiles(1)
  <2>1. /\ Select(selectedPath, selectedScratchId, scratchFiles', treeAccesses(accessed', edits', window'))
        /\ ok(1) => /\ accessed' = IF c.op.kind = "messages" THEN c.answer ELSE accessed
                    /\ edits' = IF c.op.kind = "edits" THEN c.answer ELSE edits
                    /\ plan' = IF c.op.kind = "plan" THEN c.answer ELSE plan
        /\ scratchFiles' = IF c.op.kind = "scratch" THEN IF ok(1) THEN c.answer ELSE {} ELSE scratchFiles
    BY <1>1, <1>8 DEF LoadedFiles
  <2>2. treeAccesses(accessed', edits', window') = tree'
    BY DEF tree
  <2>3. Selection'
    BY <2>1, <2>2, SelectKeeps
  <2>4. scratchFiles' \subseteq Rows
    BY <1>2, <2>1
  <2>5. ok(1) => View' = Handled(c, View)
    BY <1>8, <2>1 DEF View, Handled
  <2> QED BY <1>1, <2>3, <2>4, <2>5
<1> QED BY <1>1, <1>3, <1>4, <1>5, <1>6, <1>7, <1>8

LEMMA FilesAnswered ==
  ASSUME FilesInv, Ordered, FilesAnswer
  PROVE  FilesInv'
<1>1. PICK m0 \in Nat : Served(m0)
  BY DEF FilesInv
<1>2. PICK i \in ToAnswer :
        /\ CASE calls[i].op.kind = "create" -> Created(i)
             [] calls[i].op.kind = "rename" -> Renamed(i)
             [] calls[i].op.kind = "delete" -> Deleted(i)
             [] calls[i].op.kind = "pin"    -> Pinned(i)
             [] calls[i].op.kind = "open"   -> Opened(i)
             [] OTHER                       -> LoadedFiles(i)
        /\ missed' = (missed \/ ~ok(i)) /\ Answered(i, <<>>)
        /\ UNCHANGED <<srvScratch, srvFiles, srvPlan, window>>
  BY DEF FilesAnswer, srvFileVars
<1>3. /\ i = 1 /\ 1 \in DOMAIN calls /\ m0 >= 1 /\ calls[1].answer # Waiting
      /\ Served(m0 - 1)' /\ m0 - 1 \in Nat
  BY <1>1, <1>2, NextAnswered DEF FilesInv
<1>4. PICK n \in Nat : n = Len(calls)
  BY QueueShape DEF FilesInv
<1>5. /\ Queue' /\ DOMAIN calls = 1..n /\ DOMAIN calls' = 1..(n - 1) /\ n >= 1
      /\ \A k \in 1..(n - 1) : calls'[k] = calls[k + 1] /\ k + 1 \in 1..n /\ k + 1 # 1
      /\ \A k \in 1..n : k # 1 => k - 1 \in 1..(n - 1) /\ (k - 1) + 1 = k
  <2>1. /\ Queue' /\ Len(calls') = n - 1
        /\ \A k \in 1..(n - 1) : calls'[k] = calls[k + 1]
    BY <1>2, <1>3, <1>4, AfterAnswer DEF FilesInv
  <2>2. DOMAIN calls' = 1..Len(calls') /\ DOMAIN calls = 1..n
    BY <1>4, <2>1, QueueShape, LenProperties DEF Queue, FilesInv
  <2> QED BY <1>3, <2>1, <2>2
<1>6. /\ ok(1) => View' = Handled(calls[1], View)
      /\ scratchFiles' \subseteq Rows /\ Selection'
  <2>1. calls[1].op.kind \in Kinds
    BY <1>3 DEF FilesInv, FileTypes
  <2>2. \/ calls[1].op.kind = "create" /\ Created(1)
        \/ calls[1].op.kind = "rename" /\ Renamed(1)
        \/ calls[1].op.kind = "delete" /\ Deleted(1)
        \/ calls[1].op.kind = "pin" /\ Pinned(1)
        \/ calls[1].op.kind = "open" /\ Opened(1)
        \/ calls[1].op.kind \in {"messages", "plan", "edits", "scratch"} /\ LoadedFiles(1)
    BY <1>2, <1>3, <2>1 DEF Kinds
  <2> QED BY <1>2, <1>3, <2>2, FilesHandled
<1>7. FileTypes'
  <2>1. ASSUME NEW k \in DOMAIN calls'
        PROVE  /\ calls'[k].op.kind \in Kinds
               /\ calls'[k].op.kind = "rename" => calls'[k].op.arg.id \in ScratchIds
                                                 /\ calls'[k].op.arg.title \in Titles
               /\ calls'[k].answer \notin {Waiting, Failed} =>
                    /\ calls'[k].op.kind = "create" => calls'[k].answer \in ScratchIds
                    /\ calls'[k].op.kind \in {"scratch", "pin"} => calls'[k].answer \subseteq Rows
    BY <1>5 DEF FilesInv, FileTypes
  <2> QED BY <1>2, <1>6, <2>1 DEF FilesInv, FileTypes
<1>8. ASSUME Reliable' PROVE \E m \in Nat : \E v : Served(m)' /\ Trace(m, v)' /\ Agrees(v[m])'
  <2>1. Reliable /\ ok(1)
    <3>1. Reliable
      BY <1>2, <1>3, <1>8, StaysReliable DEF FilesInv
    <3> QED BY <1>3, <3>1 DEF Reliable, ok
  <2>2a. PICK m \in Nat : \E v : Served(m) /\ Trace(m, v) /\ Agrees(v[m])
    BY <2>1 DEF FilesInv
  <2>2. PICK v : Served(m) /\ Trace(m, v) /\ Agrees(v[m])
    BY <2>2a
  <2>3. m >= 1 /\ Served(m - 1)' /\ m - 1 \in Nat /\ m \in 0..n
    BY <1>2, <1>3, <1>4, <2>2, NextAnswered DEF FilesInv, Served
  <2>4. PICK w : w = [k \in 0..(m - 1) |-> v[k + 1]]
    OBVIOUS
  <2>5. Trace(m - 1, w)'
    <3>1. w[0] = View'
      <4>1. v[1] = Handled(calls[1], v[0]) /\ v[0] = View
        <5>1. 1 \in 1..m /\ 1 - 1 = 0
          BY <2>3
        <5> QED BY <2>2, <5>1 DEF Trace
      <4>2. w[0] = v[1]
        BY <2>3, <2>4
      <4> QED BY <1>6, <2>1, <4>1, <4>2
    <3>2. ASSUME NEW k \in 1..(m - 1) PROVE w[k] = Handled(calls'[k], w[k - 1])
      <4>1. /\ k + 1 \in 1..m /\ (k + 1) - 1 = k /\ k \in 0..(m - 1) /\ k - 1 \in 0..(m - 1)
            /\ (k - 1) + 1 = k /\ k \in 1..(n - 1)
        BY <2>3
      <4>2. v[k + 1] = Handled(calls[k + 1], v[k]) /\ calls'[k] = calls[k + 1]
        BY <1>5, <2>2, <4>1 DEF Trace
      <4>3. w[k] = v[k + 1] /\ w[k - 1] = v[k]
        BY <2>4, <4>1
      <4> QED BY <4>2, <4>3
    <3> QED BY <3>1, <3>2 DEF Trace
  <2>6. ASSUME NEW view, Agrees(view) PROVE Agrees(view)'
    <3>1. ASSUME NEW kinds, Due(kinds) PROVE Due(kinds)'
      <4>1. PICK k \in DOMAIN calls : calls[k].answer = Waiting /\ calls[k].op.kind \in kinds
        BY <3>1 DEF Due
      <4>2. k - 1 \in DOMAIN calls' /\ calls'[k - 1] = calls[k]
        BY <1>3, <1>5, <4>1
      <4> QED BY <4>1, <4>2 DEF Due
    <3>2. ScratchList' = ScratchList
      BY <1>2 DEF ScratchList, Scratch
    <3> QED BY <1>2, <2>6, <3>1, <3>2 DEF Agrees
  <2>7. w[m - 1] = v[m]
    BY <2>3, <2>4
  <2>8. Agrees(w[m - 1])'
    <3>1. PICK view : view = v[m] /\ Agrees(view)
      BY <2>2
    <3>2. Agrees(view)'
      BY <2>6, <3>1
    <3> QED BY <2>7, <3>1, <3>2
  <2> QED BY <2>3, <2>5, <2>8
<1> QED BY <1>3, <1>5, <1>6, <1>7, <1>8 DEF FilesInv

LEMMA SelectsKeep ==
  ASSUME FilesInv, handleSelectFile \/ handleSelectScratch \/ Scrub \/ Route
  PROVE  FilesInv'
<1>1. UNCHANGED <<calls, missed, srvScratch, srvFiles, srvPlan, scratchFiles, accessed, edits, plan>>
  BY DEF handleSelectFile, handleSelectScratch, Scrub, Route, filesRest, srvFileVars, loaded
<1>2. tree' = treeAccesses(accessed, edits, window')
  BY <1>1 DEF tree
<1>3. CASE \E path, id : Select(path, id, scratchFiles, treeAccesses(accessed, edits, window'))
  BY <1>1, <1>2, <1>3, SelectKeeps, FilesAlone
<1>4. CASE UNCHANGED <<window, selectedPath, selectedScratchId>>
  <2>1. Selection'
    BY <1>1, <1>4 DEF FilesInv, Selection, tree, First, IsListed
  <2> QED BY <1>1, <2>1, FilesAlone
<1>5. CASE handleSelectFile
  BY <1>3, <1>5 DEF handleSelectFile, tree
<1>6. CASE handleSelectScratch
  BY <1>3, <1>6 DEF handleSelectScratch, tree
<1>7. CASE Scrub
  BY <1>3, <1>7 DEF Scrub
<1>8. CASE Route
  BY <1>3, <1>4, <1>8 DEF Route, tree, selection
<1> QED BY <1>5, <1>6, <1>7, <1>8

LEMMA AsksKeep ==
  ASSUME FilesInv, ScratchDialog \/ handleRenameScratch \/ handleOpenMarkdown
  PROVE  FilesInv'
<1>1. UNCHANGED <<missed, window, srvScratch, srvFiles, srvPlan, scratchFiles, accessed, edits, plan,
                  selectedPath, selectedScratchId>>
  BY DEF ScratchDialog, handleRenameScratch, handleOpenMarkdown, filesRest, srvFileVars, loaded, selection
<1>2. CASE UNCHANGED calls
  <2>1. Selection'
    BY <1>1 DEF FilesInv, Selection, tree, First, IsListed
  <2> QED BY <1>1, <1>2, <2>1, FilesAlone
<1>3. CASE \E arg : Send(FileOp("create", arg)) \/ Send(FileOp("delete", arg)) \/ Send(FileOp("open", arg))
  <2>1. PICK op : Send(op) /\ op.kind \in {"create", "delete", "open"}
    BY <1>3 DEF FileOp
  <2> QED BY <1>1, <2>1, FilesSend DEF Kinds
<1>4. CASE handleRenameScratch
  <2>1. PICK f \in scratchFiles, t \in Titles : Send(FileOp("rename", [id |-> f.id, title |-> t]))
    BY <1>4 DEF handleRenameScratch
  <2>2. f.id \in ScratchIds
    BY DEF FilesInv, FileTypes, Rows
  <2>3. PICK op : op = FileOp("rename", [id |-> f.id, title |-> t])
    OBVIOUS
  <2>4. op.kind = "rename" /\ op.arg.id \in ScratchIds /\ op.arg.title \in Titles
    BY <2>2, <2>3 DEF FileOp
  <2>5. op.kind \in Kinds \ {"messages", "plan", "edits", "scratch", "pin"}
    BY <2>4 DEF Kinds
  <2> QED BY <1>1, <2>1, <2>3, <2>4, <2>5, FilesSend
<1>5. CASE ScratchDialog
  BY <1>2, <1>3, <1>5 DEF ScratchDialog
<1>6. CASE handleOpenMarkdown
  BY <1>3, <1>6 DEF handleOpenMarkdown
<1> QED BY <1>4, <1>5, <1>6

\* A file that is pinned, or work of the agent, is followed by the loads that show it.
LEMMA ReloadKeeps ==
  ASSUME FilesInv, NEW S, NEW ops \in Seq(S), calls' = calls \o Sent(ops),
         \A k \in 1..Len(ops) : ops[k].kind \in Kinds \ {"rename"},
         UNCHANGED <<missed, window, scratchFiles, accessed, edits, plan, selectedPath, selectedScratchId>>,
         srvFiles' \subseteq Files, srvPlan' \in Nat,
         srvScratch' \in [ScratchIds -> Titles \cup {"Untitled", None}],
         srvScratch' = srvScratch \/ \E k \in 1..Len(ops) : ops[k].kind = "pin",
         srvFiles' = srvFiles \/ /\ \E k \in 1..Len(ops) : ops[k].kind = "messages"
                                 /\ \E k \in 1..Len(ops) : ops[k].kind = "edits",
         srvPlan' = srvPlan \/ \E k \in 1..Len(ops) : ops[k].kind = "plan"
  PROVE  FilesInv'
<1>1. PICK n \in Nat : n = Len(ops)
  BY LenProperties
<1>2. /\ Queue' /\ Len(calls') = Len(calls) + n
      /\ \A k \in 1..Len(calls) : calls'[k] = calls[k]
      /\ \A k \in 1..n : calls'[Len(calls) + k] = [op |-> ops[k], answer |-> Waiting]
  BY <1>1, AfterSending DEF FilesInv
<1>3. ASSUME NEW k \in 1..n
      PROVE  calls'[Len(calls) + k].op = ops[k] /\ calls'[Len(calls) + k].answer = Waiting
  <2>1. calls'[Len(calls) + k] = [op |-> ops[k], answer |-> Waiting]
    BY <1>2
  <2> QED BY <2>1
<1>4. DOMAIN calls = 1..Len(calls) /\ DOMAIN calls' = 1..Len(calls') /\ Len(calls) \in Nat
  BY <1>2, QueueShape, LenProperties DEF FilesInv, Queue
<1>5. ASSUME NEW k \in DOMAIN calls', k \notin 1..Len(calls)
      PROVE  k - Len(calls) \in 1..n /\ k = Len(calls) + (k - Len(calls))
  BY <1>2, <1>4, <1>5
<1>6. FileTypes'
  <2>1. ASSUME NEW k \in DOMAIN calls'
        PROVE  /\ calls'[k].op.kind \in Kinds
               /\ calls'[k].op.kind = "rename" => calls'[k].op.arg.id \in ScratchIds
                                                 /\ calls'[k].op.arg.title \in Titles
               /\ calls'[k].answer \notin {Waiting, Failed} =>
                    /\ calls'[k].op.kind = "create" => calls'[k].answer \in ScratchIds
                    /\ calls'[k].op.kind \in {"scratch", "pin"} => calls'[k].answer \subseteq Rows
    <3>1. CASE k \in 1..Len(calls)
      BY <1>2, <1>4, <3>1 DEF FilesInv, FileTypes
    <3>2. CASE k \notin 1..Len(calls)
      <4>1. k - Len(calls) \in 1..n /\ k = Len(calls) + (k - Len(calls))
        BY <1>5, <3>2
      <4>2. calls'[k].op = ops[k - Len(calls)] /\ calls'[k].answer = Waiting
        BY <1>3, <4>1
      <4> QED BY <1>1, <4>1, <4>2
    <3> QED BY <3>1, <3>2
  <2> QED BY <2>1 DEF FilesInv, FileTypes
<1>7. Selection' /\ View' = View
  BY DEF FilesInv, Selection, View, tree, IsListed, First
<1>8. ASSUME NEW kind, NEW kinds, kind \in kinds, \E k \in 1..Len(ops) : ops[k].kind = kind
      PROVE  Due(kinds)'
  <2>1. PICK k \in 1..n : ops[k].kind = kind
    BY <1>1, <1>8
  <2>2. Len(calls) + k \in DOMAIN calls'
    BY <1>2, <1>4
  <2> QED BY <1>3, <1>8, <2>1, <2>2 DEF Due
<1>9. \A kinds : Due(kinds) => Due(kinds)'
  BY <1>2, DueStays DEF FilesInv
<1>10. ASSUME NEW view, Agrees(view) PROVE Agrees(view)'
  <2>1. view.scratch = ScratchList' \/ Due({"scratch", "pin"})'
    <3>1. CASE srvScratch' = srvScratch
      <4>1. ScratchList' = ScratchList
        BY <3>1 DEF ScratchList, Scratch
      <4> QED BY <1>9, <1>10, <4>1 DEF Agrees
    <3>2. CASE \E k \in 1..Len(ops) : ops[k].kind = "pin"
      BY <1>8, <3>2
    <3> QED BY <3>1, <3>2
  <2>2. view.accessed = srvFiles' \/ Due({"messages"})'
    BY <1>8, <1>9, <1>10 DEF Agrees
  <2>3. view.edits = srvFiles' \/ Due({"edits"})'
    BY <1>8, <1>9, <1>10 DEF Agrees
  <2>4. view.plan = srvPlan' \/ Due({"plan"})'
    BY <1>8, <1>9, <1>10 DEF Agrees
  <2> QED BY <2>1, <2>2, <2>3, <2>4 DEF Agrees
<1>11. \A k \in 1..n : calls'[Len(calls) + k].answer = Waiting
  BY <1>3
<1> QED BY <1>2, <1>6, <1>7, <1>10, <1>11, FilesAsk

LEMMA PinKeeps ==
  ASSUME FilesInv, Pin
  PROVE  FilesInv'
<1>1. PICK id : id = Fresh /\ id \in ScratchIds
  BY FreshIsNew DEF Pin
<1>2. /\ srvScratch' = [srvScratch EXCEPT ![id] = "Untitled"] /\ Send(FileOp("pin", id))
      /\ UNCHANGED <<missed, window, srvFiles, srvPlan, scratchFiles, accessed, edits, plan,
                     selectedPath, selectedScratchId>>
  BY <1>1 DEF Pin, loaded, selection
<1>3. PICK op : op = FileOp("pin", id)
  OBVIOUS
<1>4. op.kind = "pin" /\ op.kind \in Kinds \ {"rename"}
  BY <1>3 DEF FileOp, Kinds
<1>5. /\ <<op>> \in Seq({op}) /\ Len(<<op>>) = 1 /\ 1 \in 1..Len(<<op>>)
      /\ \A k \in 1..Len(<<op>>) : <<op>>[k] = op
  OBVIOUS
<1>6. calls' = calls \o Sent(<<op>>)
  <2>1. PICK c : c = [op |-> op, answer |-> Waiting]
    OBVIOUS
  <2>2. PICK S : S = Range(calls) \cup {c}
    OBVIOUS
  <2>3. calls \in Seq(S) /\ c \in S
    BY <2>2, SeqMonotonic DEF FilesInv, Queue
  <2>4. Sent(<<op>>) = <<c>>
    BY <1>5, <2>1 DEF Sent
  <2>5. calls' = Append(calls, c)
    BY <1>2, <1>3, <2>1 DEF Send
  <2> QED BY <2>3, <2>4, <2>5, AppendIsConcat
<1>7. srvScratch' \in [ScratchIds -> Titles \cup {"Untitled", None}]
  BY <1>2 DEF FilesInv, FileTypes
<1>8. srvFiles' \subseteq Files /\ srvPlan' \in Nat
  BY <1>2 DEF FilesInv, FileTypes
<1>9. \A k \in 1..Len(<<op>>) : <<op>>[k].kind \in Kinds \ {"rename"}
  BY <1>4, <1>5
<1>10. \E k \in 1..Len(<<op>>) : <<op>>[k].kind = "pin"
  BY <1>4, <1>5
<1>11. PICK ops : ops = <<op>>
  OBVIOUS
<1> QED BY <1>2, <1>5, <1>6, <1>7, <1>8, <1>9, <1>10, <1>11, ReloadKeeps

LEMMA WorkKeeps ==
  ASSUME FilesInv, AgentWorks
  PROVE  FilesInv'
<1>1. /\ srvFiles' \subseteq Files /\ srvPlan' \in Nat /\ calls' = calls \o Sent(LoadAll(TRUE))
      /\ UNCHANGED <<missed, window, srvScratch, scratchFiles, accessed, edits, plan,
                     selectedPath, selectedScratchId>>
  BY DEF AgentWorks, loaded, selection, FilesInv, FileTypes
<1>2. PICK ops : ops = LoadAll(TRUE)
  OBVIOUS
<1>3. /\ ops \in Seq({ops[1], ops[2], ops[3], ops[4]}) /\ Len(ops) = 4
      /\ ops[1].kind = "messages" /\ ops[2].kind = "plan" /\ ops[3].kind = "edits"
      /\ ops[4].kind = "scratch"
  BY <1>2 DEF LoadAll, FileOp
<1>4. \A k \in 1..Len(ops) : ops[k].kind \in Kinds \ {"rename"}
  <2>1. \A k \in 1..Len(ops) : k = 1 \/ k = 2 \/ k = 3 \/ k = 4
    BY <1>3
  <2> QED BY <1>3, <2>1 DEF Kinds
<1>5. 1 \in 1..Len(ops) /\ 2 \in 1..Len(ops) /\ 3 \in 1..Len(ops)
  BY <1>3
<1>6. srvScratch' \in [ScratchIds -> Titles \cup {"Untitled", None}]
  BY <1>1 DEF FilesInv, FileTypes
<1> QED BY <1>1, <1>2, <1>3, <1>4, <1>5, <1>6, ReloadKeeps

LEMMA FilesLose ==
  ASSUME FilesInv, Ordered, LoseRequest, UNCHANGED <<missed, fileVars>>
  PROVE  FilesInv'
<1>1. PICK i \in ToServe : calls' = [calls EXCEPT ![i].answer = Failed]
  BY DEF LoseRequest
<1>2. PICK m \in Nat : Served(m)
  BY DEF FilesInv
<1>3. i \in DOMAIN calls /\ Queue /\ Failed # Waiting
  BY <1>1, RequestAssumption DEF ToServe, FilesInv
<1>4. /\ Queue' /\ Len(calls') = Len(calls)
      /\ \A k \in DOMAIN calls : calls'[k].op = calls[k].op
      /\ \A k \in DOMAIN calls : k # i => calls'[k] = calls[k]
      /\ calls'[i] = [op |-> calls[i].op, answer |-> Failed]
  BY <1>1, <1>3, AfterServe
<1>5. Served(m + 1)'
  BY <1>1, <1>2, <1>3, NextServed
<1>6. DOMAIN calls' = DOMAIN calls /\ calls'[i].answer = Failed
  BY <1>3, <1>4, QueueShape, LenProperties DEF Queue
<1>7. ~Reliable'
  BY <1>3, <1>6 DEF Reliable
<1>8. UNCHANGED <<srvScratch, srvFiles, srvPlan, scratchFiles, accessed, edits, window, selectedPath,
                  selectedScratchId>>
  BY DEF fileVars
<1>9. FileTypes' /\ Selection'
  <2>1. ASSUME NEW k \in DOMAIN calls'
        PROVE  /\ calls'[k].op.kind \in Kinds
               /\ calls'[k].op.kind = "rename" => calls'[k].op.arg.id \in ScratchIds
                                                 /\ calls'[k].op.arg.title \in Titles
               /\ calls'[k].answer \notin {Waiting, Failed} =>
                    /\ calls'[k].op.kind = "create" => calls'[k].answer \in ScratchIds
                    /\ calls'[k].op.kind \in {"scratch", "pin"} => calls'[k].answer \subseteq Rows
    BY <1>4, <1>6 DEF FilesInv, FileTypes
  <2> QED BY <1>8, <2>1 DEF FilesInv, FileTypes, Selection, IsListed, tree, First
<1> QED BY <1>2, <1>4, <1>5, <1>7, <1>9 DEF FilesInv

LEMMA FilesKeep ==
  ASSUME FilesInv, Ordered, FilesNext
  PROVE  FilesInv'
<1>1. CASE ServeFiles \/ FilesAnswer
  BY <1>1, FilesServed, FilesAnswered
<1>2. CASE LoseRequest /\ UNCHANGED <<acts, missed, fileVars>>
  BY <1>2, FilesLose
<1>3. CASE handleSelectFile \/ handleSelectScratch \/ Scrub \/ Route
  BY <1>3, SelectsKeep
<1>4. CASE ScratchDialog \/ handleRenameScratch \/ handleOpenMarkdown
  BY <1>4, AsksKeep
<1>5. CASE Pin \/ AgentWorks
  BY <1>5, PinKeeps, WorkKeeps
<1> QED BY <1>1, <1>2, <1>3, <1>4, <1>5 DEF FilesNext

-----------------------------------------------------------------------------
(* All panes.                                                               *)

\* What each pane relies on, while it is the one that is followed.  Without Ordered
\* nothing is said of the panes that ask the server.
PanesInv ==
  /\ part = "row" => LayoutInv
  /\ Ordered =>
       /\ part = "files" => FilesInv
       /\ part = "editor" /\ ~Retype => EditorInv
       /\ part = "resume" => MenuInv

LEMMA FirstSent ==
  ASSUME NEW S, NEW ops \in Seq(S), calls = Sent(ops)
  PROVE  /\ Queue /\ DOMAIN calls = 1..Len(ops) /\ Len(calls) = Len(ops) /\ Served(0)
         /\ \A k \in 1..Len(ops) : calls[k].op = ops[k] /\ calls[k].answer = Waiting
<1>1. PICK n \in Nat : n = Len(ops) /\ DOMAIN ops = 1..n
  BY LenProperties
<1>2. /\ DOMAIN calls = 1..n
      /\ \A k \in 1..n : calls[k] = [op |-> ops[k], answer |-> Waiting]
  BY <1>1 DEF Sent
<1>3. calls \in [1..n -> Range(calls)]
  <2>1. calls = [k \in 1..n |-> calls[k]]
    BY <1>1 DEF Sent
  <2> QED BY <1>2, <2>1 DEF Range
<1>4. calls \in Seq(Range(calls))
  BY <1>3, SeqDef
<1>5. Len(calls) = n
  BY <1>1, <1>2, <1>4, LenProperties
<1>6. ASSUME NEW k \in 1..n PROVE calls[k].op = ops[k] /\ calls[k].answer = Waiting /\ IsCall(calls[k])
  <2>1. calls[k] = [op |-> ops[k], answer |-> Waiting]
    BY <1>2
  <2> QED BY <2>1 DEF IsCall
<1>7. Served(0)
  BY <1>2, <1>5, <1>6 DEF Served
<1> QED BY <1>1, <1>2, <1>4, <1>5, <1>6, <1>7 DEF Queue

LEMMA FilesStart ==
  ASSUME FilesInit, calls = Sent(LoadAll(FALSE)), missed = FALSE
  PROVE  FilesInv
<1>1. PICK ops : ops = LoadAll(FALSE)
  OBVIOUS
<1>2. /\ ops \in Seq({ops[1], ops[2], ops[3], ops[4]}) /\ Len(ops) = 4
      /\ ops[1].kind = "messages" /\ ops[2].kind = "plan" /\ ops[3].kind = "edits"
      /\ ops[4].kind = "scratch"
  BY <1>1 DEF LoadAll, FileOp
<1>3. /\ Queue /\ DOMAIN calls = 1..4 /\ Served(0)
      /\ \A k \in 1..4 : calls[k].op = ops[k] /\ calls[k].answer = Waiting
  <2>1. calls = Sent(ops)
    BY <1>1
  <2>2. PICK S : S = {ops[1], ops[2], ops[3], ops[4]}
    OBVIOUS
  <2>3. ops \in Seq(S)
    BY <1>2, <2>2
  <2> QED BY <1>2, <2>1, <2>3, FirstSent
<1>4. \A k \in 1..4 : k = 1 \/ k = 2 \/ k = 3 \/ k = 4
  OBVIOUS
<1>5. FileTypes
  <2>1. \A k \in 1..4 : ops[k].kind \in Kinds /\ ops[k].kind # "rename"
    BY <1>2, <1>4 DEF Kinds
  <2>2. srvFiles \subseteq Files
    BY DEF FilesInit
  <2>3. srvPlan \in Nat /\ scratchFiles \subseteq Rows
    BY DEF FilesInit
  <2>4. srvScratch \in [ScratchIds -> Titles \cup {"Untitled", None}]
    BY DEF FilesInit
  <2> QED BY <1>3, <2>1, <2>2, <2>3, <2>4 DEF FileTypes
<1>6. Selection
  <2>1. tree = {}
    BY DEF FilesInit, tree, treeAccesses
  <2> QED BY <2>1 DEF FilesInit, Selection, First
<1>7. /\ Due({"scratch", "pin"}) /\ Due({"messages"}) /\ Due({"edits"}) /\ Due({"plan"})
  <2>1. 1 \in 1..4 /\ 2 \in 1..4 /\ 3 \in 1..4 /\ 4 \in 1..4
    OBVIOUS
  <2>2. /\ calls[1].op.kind = "messages" /\ calls[2].op.kind = "plan" /\ calls[3].op.kind = "edits"
        /\ calls[4].op.kind = "scratch"
    BY <1>2, <1>3, <2>1
  <2> QED BY <1>3, <2>1, <2>2 DEF Due
<1>8. PICK v : v = [k \in 0..0 |-> View]
  OBVIOUS
<1>9. Trace(0, v) /\ Agrees(v[0])
  BY <1>7, <1>8 DEF Trace, Agrees
<1> QED BY <1>3, <1>5, <1>6, <1>9 DEF FilesInv

LEMMA EditorStart ==
  ASSUME EditorInit, calls = Sent(<<EditorOp("file", Blank, None)>>), missed = FALSE
  PROVE  EditorInv
<1>1. PICK op : op = EditorOp("file", Blank, None)
  OBVIOUS
<1>2. op.kind = "file" /\ op.text = Blank /\ op.mounting = opened /\ Blank \in Texts
  BY <1>1 DEF EditorOp, Blank, Text, Texts
<1>3. /\ Queue /\ DOMAIN calls = 1..1 /\ Served(0) /\ calls[1].op = op /\ calls[1].answer = Waiting
  <2>1. PICK ops : ops = <<op>>
    OBVIOUS
  <2>2. PICK S : S = {op}
    OBVIOUS
  <2>3. ops \in Seq(S) /\ Len(ops) = 1 /\ ops[1] = op
    BY <2>1, <2>2
  <2>4. calls = Sent(ops) /\ 1 \in 1..1
    BY <1>1, <2>1
  <2> QED BY <2>3, <2>4, FirstSent
<1>4. /\ opened = 1 /\ mounted = TRUE /\ loading = TRUE /\ readOnly = FALSE /\ editorMode = "wysiwyg"
      /\ source = Blank /\ html = Blank /\ lastSaved = Blank /\ originalTitle = "Untitled"
      /\ timer = None /\ versions = 1
  BY DEF EditorInit
<1>5. /\ srvText \in Texts /\ srvText.version = 1 /\ srvTitle \in Headings
      /\ srvMode \in {"writable", "readonly"} /\ "Untitled" \in Headings
  <2>1. Text(1, FALSE) \in Texts /\ Text(1, TRUE) \in Texts
    BY DEF Text, Texts
  <2>2. Text(1, FALSE).version = 1 /\ Text(1, TRUE).version = 1
    BY DEF Text
  <2>3. srvText \in {Text(1, FALSE), Text(1, TRUE)}
    BY DEF EditorInit
  <2> QED BY <2>1, <2>2, <2>3 DEF EditorInit, Headings
<1>6. EditorTypes
  <2>1. \A k \in DOMAIN calls : k = 1
    BY <1>3
  <2> QED BY <1>2, <1>3, <1>4, <1>5, <2>1 DEF EditorTypes, IsSave
<1>7. PICK t \in Texts : t = srvText
  BY <1>5
<1>8. \A k \in DOMAIN calls : ~IsSave(k) /\ k = 1
  BY <1>2, <1>3 DEF IsSave
<1>9. IsLoad(1) /\ 1 \in DOMAIN calls
  BY <1>2, <1>3 DEF IsLoad
<1>10. Following(t)
  <2>1. LastSent(t)
    BY <1>7, <1>8 DEF LastSent, Unsaved
  <2>2. LoadIsDue(t)
    BY <1>3, <1>8, <1>9 DEF LoadIsDue
  <2> QED BY <1>4, <1>5, <1>7, <1>8, <2>1, <2>2 DEF Following
<1>11. EditorIdle
  BY <1>4 DEF EditorIdle
<1> QED BY <1>3, <1>6, <1>10, <1>11 DEF EditorInv

LEMMA PanesStart ==
  ASSUME Init
  PROVE  PanesInv
<1>1. calls = Sent(Mounts[part]) /\ missed = FALSE /\ part \in Parts
  BY DEF Init
<1>2. part = "files" => FilesInv
  BY <1>1, FilesStart DEF Init, Mounts
<1>3. part = "editor" => EditorInv
  BY <1>1, EditorStart DEF Init, Mounts
<1>4. ASSUME part = "resume" PROVE MenuInv
  <2>1. calls = Sent(<<>>)
    BY <1>1, <1>4 DEF Mounts
  <2>2. Queue
    BY <2>1, FirstSent, EmptySeq
  <2> QED BY <2>2 DEF Init, ResumeInit, MenuInv
<1>5. LayoutInv
  BY DEF Init, RowInit, LayoutInv
<1> QED BY <1>2, <1>3, <1>4, <1>5 DEF PanesInv

LEMMA PanesKept ==
  ASSUME PanesInv, [Next]_vars
  PROVE  PanesInv'
<1>1. part' = part
  BY DEF Next, vars
<1>2. ASSUME part = "row" PROVE LayoutInv'
  <2>1. LayoutInv
    BY <1>2 DEF PanesInv
  <2>2. CASE RowNext
    BY <2>1, <2>2, LayoutKeeps
  <2>3. CASE UNCHANGED rowVars
    BY <2>1, <2>3 DEF rowVars, LayoutInv
  <2> QED BY <1>2, <2>2, <2>3 DEF Next, vars
<1>3. ASSUME Ordered, part = "files" PROVE FilesInv'
  <2>1. FilesInv
    BY <1>3 DEF PanesInv
  <2>2. CASE FilesNext
    BY <1>3, <2>1, <2>2, FilesKeep
  <2>3. CASE UNCHANGED <<requestVars, fileVars>>
    <3>1. UNCHANGED <<calls, missed, srvScratch, srvFiles, srvPlan, scratchFiles, accessed, edits, plan,
                      window, selectedPath, selectedScratchId>>
      BY <2>3 DEF requestVars, fileVars
    <3>2. Selection'
      BY <2>1, <3>1 DEF FilesInv, Selection, tree, First, IsListed
    <3> QED BY <2>1, <3>1, <3>2, FilesAlone
  <2> QED BY <1>3, <2>2, <2>3 DEF Next, vars
<1>4. ASSUME Ordered, part = "editor", ~Retype PROVE EditorInv'
  <2>1. EditorInv
    BY <1>4 DEF PanesInv
  <2>2. CASE EditorNext
    BY <1>4, <2>1, <2>2, EditorKeeps
  <2>3. CASE UNCHANGED <<requestVars, editorVars>>
    <3>1. UNCHANGED <<calls, missed>>
      BY <2>3 DEF requestVars
    <3>2. EditorTypes' /\ EditorIdle'
      BY <2>1, <2>3, <3>1 DEF editorVars, EditorInv, EditorTypes, EditorIdle, IsSave
    <3>3. \A t \in Texts : Following(t) /\ mounted /\ ~loading /\ ~readOnly => InStep(t)'
      BY <2>3 DEF editorVars, Following, InStep, Shown
    <3>4. versions' >= versions
      BY <2>1, <2>3 DEF editorVars, EditorInv, EditorTypes
    <3>5. UNCHANGED <<mounted, loading, readOnly, srvText, opened>>
      BY <2>3 DEF editorVars
    <3> QED BY <2>1, <3>1, <3>2, <3>3, <3>4, <3>5, EditorAlone
  <2> QED BY <1>4, <2>2, <2>3 DEF Next, vars
<1>5. ASSUME Ordered, part = "resume" PROVE MenuInv'
  <2>1. MenuInv
    BY <1>5 DEF PanesInv
  <2>2. CASE ResumeNext
    BY <1>5, <2>1, <2>2, MenuKeeps
  <2>3. CASE UNCHANGED <<requestVars, resumeVars>>
    BY <2>1, <2>3 DEF requestVars, resumeVars, MenuInv, Queue
  <2> QED BY <1>5, <2>2, <2>3 DEF Next, vars
<1> QED BY <1>1, <1>2, <1>3, <1>4, <1>5 DEF PanesInv

\* Once all was answered, the views the answers make of the page's is the page's.
LEMMA FilesEnd ==
  ASSUME Ordered => (part = "files" => FilesInv)
  PROVE  FilesConverge
<1> SUFFICES ASSUME part = "files", Ordered, calls = <<>>, ~missed
             PROVE  /\ scratchFiles = ScratchList
                    /\ accessed = srvFiles /\ edits = srvFiles /\ plan = srvPlan
                    /\ selectedScratchId # None => selectedScratchId \in Scratch
                    /\ selectedScratchId = None => selectedPath = First(tree) \/ selectedPath \in tree
  BY DEF FilesConverge, Settled
<1>1. FilesInv
  OBVIOUS
<1>2. DOMAIN calls = {} /\ Len(calls) = 0
  BY EmptySeq, QueueShape, <1>1 DEF FilesInv
<1>3. Reliable
  BY <1>2 DEF Reliable
<1>4a. PICK m \in Nat : \E v : Served(m) /\ Trace(m, v) /\ Agrees(v[m])
  BY <1>1, <1>3 DEF FilesInv
<1>4. PICK v : Served(m) /\ Trace(m, v) /\ Agrees(v[m])
  BY <1>4a
<1>5. m = 0
  BY <1>2, <1>4 DEF Served
<1>6. PICK view : view = View /\ Agrees(view)
  BY <1>4, <1>5 DEF Trace
<1>7. /\ view.scratch = ScratchList /\ view.accessed = srvFiles /\ view.edits = srvFiles
      /\ view.plan = srvPlan
  BY <1>2, <1>6 DEF Agrees, Due
<1>8. /\ scratchFiles = ScratchList /\ accessed = srvFiles /\ edits = srvFiles /\ plan = srvPlan
  BY <1>6, <1>7 DEF View
<1>9. selectedScratchId # None => selectedScratchId \in Scratch
  BY <1>1, <1>8 DEF FilesInv, Selection, IsListed, ScratchList
<1> QED BY <1>1, <1>8, <1>9 DEF FilesInv, Selection

LEMMA EditorEnd ==
  ASSUME Ordered => (part = "editor" => EditorInv)
  PROVE  EditorConverges
<1> SUFFICES ASSUME part = "editor", Ordered, calls = <<>>, ~missed, mounted, ~readOnly, timer = None
             PROVE  srvText = Shown
  BY DEF EditorConverges, Settled
<1>1. EditorInv
  OBVIOUS
<1>2. DOMAIN calls = {}
  BY EmptySeq, QueueShape, <1>1 DEF EditorInv
<1>3. Reliable
  BY <1>2 DEF Reliable
<1>4. PICK t \in Texts : Following(t)
  BY <1>1, <1>3 DEF EditorInv
<1>5. ~loading /\ t = srvText
  BY <1>2, <1>4 DEF Following, LoadIsDue, LastSent
<1> QED BY <1>4, <1>5 DEF Following, InStep

LEMMA MenuEnd ==
  ASSUME Ordered => (part = "resume" => MenuInv)
  PROVE  ResumeConverges
  BY DEF ResumeConverges, Settled, MenuInv

LEMMA LayoutEnd ==
  ASSUME part = "row" => LayoutInv
  PROVE  LayoutIsKept
<1> SUFFICES ASSUME part = "row"
             PROVE  /\ drag = None => stored = [drawer |-> drawerCollapsedPref, console |-> consoleCollapsed,
                                                tab |-> activityTab, width |-> value]
                    /\ observed /\ wide /\ rowWidth = Seen => drawerCollapsed = drawerCollapsedPref
  BY DEF LayoutIsKept
<1>1. LayoutInv
  OBVIOUS
<1>2. ASSUME drag = None
      PROVE  stored = [drawer |-> drawerCollapsedPref, console |-> consoleCollapsed,
                       tab |-> activityTab, width |-> value]
  BY <1>1, <1>2 DEF LayoutInv
<1>3. ASSUME observed, wide, rowWidth = Seen PROVE drawerCollapsed = drawerCollapsedPref
  <2>1. ~autoCollapsed /\ drawerCollapsedPref \in BOOLEAN
    BY <1>1, <1>3 DEF LayoutInv, Seen
  <2> QED BY <2>1, Zenon DEF drawerCollapsed
<1> QED BY <1>2, <1>3

\* CinematicSessionView, useResizable, ResumeMenu: the files, the resume menu and the
\* layout of an open session end with what the server and the user have.
THEOREM FilesAndLayoutAgree == Spec => [](FilesConverge /\ ResumeConverges /\ LayoutIsKept)
<1>1. PanesInv => FilesConverge /\ ResumeConverges /\ LayoutIsKept
  BY FilesEnd, MenuEnd, LayoutEnd DEF PanesInv
<1> QED BY <1>1, PanesStart, PanesKept, PTL DEF Spec

\* And ScratchEditor, whose text is saved while it is typed, whatever is closed and
\* opened meanwhile: as long as the user does not come back to an earlier text,
\* what is shown and not waiting to be saved is what the server has.
THEOREM PanesAgree == ~Retype => (Spec => []PanesConverge)
<1> SUFFICES ASSUME ~Retype PROVE Spec => []PanesConverge
  OBVIOUS
<1>1. PanesInv => PanesConverge
  BY FilesEnd, EditorEnd, MenuEnd, LayoutEnd DEF PanesInv, PanesConverge
<1> QED BY <1>1, PanesStart, PanesKept, PTL DEF Spec
=================================================================================
