------------------------------ MODULE Panels_proofs ------------------------------
(***************************************************************************)
(* Proofs about Panels, for any lists, files, prompts, tags, bookmarks, sources,  *)
(* failures and acts.  First the queue of requests, as sends, answers and the     *)
(* server change it; then the panels that keep something on the server, which     *)
(* are proved for requests that are served and answered as they are sent; then    *)
(* what is kept on the page and the tree of files.  Last come the families, up    *)
(* to a root and down from it, the trees of sessions and the rows that are shown of *)
(* them, for any list of sessions.                                              *)
(***************************************************************************)
EXTENDS Panels, SequenceLemmas

-----------------------------------------------------------------------------
(* The queue                                                                *)

Queue(q) == \E Ops, Answers : q \in Seq([op : Ops, answer : Answers])

\* From q the first d are dropped, requests for `ops` are added.
Moved2(q, r, d, ops) ==
  /\ Len(r) = Len(q) - d + Len(ops)
  /\ \A i \in 1..(Len(q) - d) : r[i] = q[i + d]
  /\ \A k \in 1..Len(ops) : r[Len(q) - d + k] = [op |-> ops[k], answer |-> Waiting]

\* What a step of the page does to it ...
Moves(d, ops) ==
  /\ d \in {0, 1} /\ d <= Len(calls) /\ Len(ops) \in Nat
  /\ Queue(calls') /\ Moved2(calls, calls', d, ops)

\* ... and what a step of the server does.
Serves(i, answer) ==
  /\ i \in ToServe /\ Queue(calls') /\ Len(calls') = Len(calls)
  /\ \A j \in DOMAIN calls : /\ calls'[j].op = calls[j].op
                             /\ j # i => calls'[j] = calls[j]
  /\ calls'[i].answer = answer

\* Requests that are served have only such before them.
InOrder == \A i \in DOMAIN calls : \A j \in 1..(i - 1) :
             calls[i].answer # Waiting => calls[j].answer # Waiting

QueueInv == Queue(calls) /\ InOrder

LEMMA QueueShape ==
  ASSUME NEW q, Queue(q)
  PROVE  Len(q) \in Nat /\ DOMAIN q = 1..Len(q)
<1>1. PICK Ops, Answers : q \in Seq([op : Ops, answer : Answers])
  BY DEF Queue
<1> QED BY <1>1, LenProperties

LEMMA SentType ==
  ASSUME NEW T, NEW ops \in Seq(T), NEW O, NEW A, T \subseteq O, Waiting \in A
  PROVE  /\ Sent(ops) \in Seq([op : O, answer : A]) /\ Len(Sent(ops)) = Len(ops)
         /\ \A k \in 1..Len(ops) : Sent(ops)[k] = [op |-> ops[k], answer |-> Waiting]
<1>1. Len(ops) \in Nat /\ DOMAIN ops = 1..Len(ops) /\ \A k \in 1..Len(ops) : ops[k] \in T
  BY LenProperties, ElementOfSeq
<1>2. Sent(ops) = [k \in 1..Len(ops) |-> [op |-> ops[k], answer |-> Waiting]]
  BY <1>1 DEF Sent
<1>3. Sent(ops) \in [1..Len(ops) -> [op : O, answer : A]]
  BY <1>1, <1>2
<1> QED BY <1>1, <1>2, <1>3, IsSequence

\* Requests that are added to a queue.
LEMMA Appended ==
  ASSUME Queue(calls), NEW T, NEW ops \in Seq(T), calls' = calls \o Sent(ops)
  PROVE  Moves(0, ops)
<1>1. PICK Ops, Answers : calls \in Seq([op : Ops, answer : Answers])
  BY DEF Queue
<1> DEFINE O == Ops \cup T
           A == Answers \cup {Waiting}
           R == [op : O, answer : A]
<1>2. [op : Ops, answer : Answers] \subseteq R
  OBVIOUS
<1>3. Sent(ops) \in Seq(R) /\ Len(Sent(ops)) = Len(ops)
      /\ \A k \in 1..Len(ops) : Sent(ops)[k] = [op |-> ops[k], answer |-> Waiting]
  BY SentType
<1>4. Len(calls) \in Nat /\ Len(ops) \in Nat
  BY <1>1, LenProperties
<1> HIDE DEF R
<1>5. calls \in Seq(R)
  <2>1. calls \in [1..Len(calls) -> [op : Ops, answer : Answers]]
    BY <1>1, LenProperties
  <2>2. calls \in [1..Len(calls) -> R]
    BY <1>2, <2>1
  <2> QED BY <1>4, <2>2, IsSequence
<1>6. /\ calls' \in Seq(R) /\ Len(calls') = Len(calls) + Len(Sent(ops))
      /\ \A i \in 1..(Len(calls) + Len(Sent(ops))) :
           calls'[i] = IF i <= Len(calls) THEN calls[i] ELSE Sent(ops)[i - Len(calls)]
  BY <1>3, <1>5, ConcatProperties
<1>7. Queue(calls')
  BY <1>6 DEF Queue, R
<1>8. \A n, m, k \in Nat : k \in 1..m => /\ n + k \in 1..(n + m) /\ ~(n + k <= n) /\ n + k - n = k
  OBVIOUS
<1>9. \A k \in 1..Len(ops) : calls'[Len(calls) + k] = Sent(ops)[k]
  BY <1>3, <1>4, <1>6, <1>8
<1>10. \A i \in 1..Len(calls) : calls'[i] = calls[i]
  BY <1>3, <1>4, <1>6
<1> QED BY <1>3, <1>4, <1>6, <1>7, <1>9, <1>10 DEF Moves, Moved2

\* Nothing is sent, or one request.
LEMMA SendMoves ==
  ASSUME Queue(calls)
  PROVE  /\ UNCHANGED calls => Moves(0, <<>>)
         /\ \A op : Send(op) => Moves(0, <<op>>)
<1>1. PICK Ops, Answers : calls \in Seq([op : Ops, answer : Answers])
  BY DEF Queue
<1>2. ASSUME UNCHANGED calls PROVE Moves(0, <<>>)
  <2>1. Len(calls) \in Nat /\ Len(<<>>) = 0 /\ calls' = calls
    BY <1>1, <1>2, LenProperties
  <2> QED BY <2>1 DEF Moves, Moved2
<1>3. ASSUME NEW op, Send(op) PROVE Moves(0, <<op>>)
  <2> DEFINE R == [op : Ops \cup {op}, answer : Answers \cup {Waiting}]
             e == [op |-> op, answer |-> Waiting]
  <2>1. calls \in [1..Len(calls) -> [op : Ops, answer : Answers]] /\ Len(calls) \in Nat
    BY <1>1, LenProperties
  <2>2. calls \in [1..Len(calls) -> R] /\ e \in R
    BY <2>1
  <2>3. calls' = Append(calls, e)
    BY <1>3 DEF Send
  <2>4. <<op>>[1] = op /\ Len(<<op>>) = 1 /\ e = [op |-> <<op>>[1], answer |-> Waiting]
    OBVIOUS
  <2> HIDE DEF R, e
  <2>5. calls \in Seq(R)
    BY <2>1, <2>2, IsSequence
  <2>6. /\ calls' \in Seq(R) /\ Len(calls') = Len(calls) + 1
        /\ \A i \in 1..Len(calls) : calls'[i] = calls[i]
        /\ calls'[Len(calls) + 1] = e
    BY <2>2, <2>3, <2>5, AppendProperties
  <2>7. Queue(calls')
    BY <2>6 DEF Queue, R
  <2> QED BY <2>1, <2>4, <2>6, <2>7 DEF Moves, Moved2
<1> QED BY <1>2, <1>3

\* The first is answered: it goes, and requests follow.
LEMMA AnsweredMoves ==
  ASSUME Ordered, Queue(calls), NEW i \in ToAnswer, NEW T, NEW ops \in Seq(T), Answered(i, ops)
  PROVE  i = 1 /\ Moves(1, ops)
<1>1. i = 1 /\ 1 \in DOMAIN calls
  BY DEF ToAnswer
<1>2. PICK Ops, Answers : calls \in Seq([op : Ops, answer : Answers])
  BY DEF Queue
<1> DEFINE R == [op : Ops \cup T, answer : Answers \cup {Waiting}]
           rest == RemoveAt(calls, 1)
<1>3. Len(calls) \in Nat /\ Len(ops) \in Nat /\ DOMAIN calls = 1..Len(calls) /\ Len(calls) >= 1
      /\ \A j \in 1..Len(calls) : calls[j] \in R
  <2>1. Len(calls) \in Nat /\ Len(ops) \in Nat /\ DOMAIN calls = 1..Len(calls)
    BY <1>2, LenProperties
  <2>2. \A j \in 1..Len(calls) : calls[j] \in [op : Ops, answer : Answers]
    BY <1>2, ElementOfSeq
  <2> QED BY <1>1, <2>1, <2>2
<1>4. Sent(ops) \in Seq(R) /\ Len(Sent(ops)) = Len(ops)
      /\ \A k \in 1..Len(ops) : Sent(ops)[k] = [op |-> ops[k], answer |-> Waiting]
  BY SentType
<1> HIDE DEF R
<1>5. rest \in Seq(R) /\ Len(rest) = Len(calls) - 1
      /\ \A j \in 1..(Len(calls) - 1) : rest[j] = calls[j + 1]
  <2> DEFINE s == SubSeq(calls, 2, Len(calls))
  <2>1. s \in Seq(R) /\ Len(s) = (IF 2 <= Len(calls) THEN Len(calls) - 2 + 1 ELSE 0)
        /\ \A j \in 1..(Len(calls) - 2 + 1) : s[j] = calls[2 + j - 1]
    BY <1>3, SubSeqProperties
  <2>2. SubSeq(calls, 1, 0) = <<>>
    BY <1>3, SubSeqEmpty
  <2>3. rest = <<>> \o s
    BY <2>2 DEF RemoveAt
  <2> HIDE DEF s
  <2>4. rest = s
    BY <2>1, <2>3, ConcatEmptySeq
  <2>5. Len(s) = Len(calls) - 1
    <3>1. \A n \in Nat : n >= 1 => (IF 2 <= n THEN n - 2 + 1 ELSE 0) = n - 1
      OBVIOUS
    <3> QED BY <1>3, <2>1, <3>1
  <2>6. \A n \in Nat : \A j \in 1..(n - 1) : j \in 1..(n - 2 + 1) /\ 2 + j - 1 = j + 1
    OBVIOUS
  <2>7. \A j \in 1..(Len(calls) - 1) : s[j] = calls[j + 1]
    BY <1>3, <2>1, <2>6
  <2> QED BY <2>1, <2>4, <2>5, <2>7
<1>6. calls' = rest \o Sent(ops)
  BY <1>1 DEF Answered
<1> HIDE DEF rest
<1>7. /\ calls' \in Seq(R) /\ Len(calls') = Len(rest) + Len(Sent(ops))
      /\ \A k \in 1..(Len(rest) + Len(Sent(ops))) :
           calls'[k] = IF k <= Len(rest) THEN rest[k] ELSE Sent(ops)[k - Len(rest)]
  BY <1>4, <1>5, <1>6, ConcatProperties
<1>8. Queue(calls')
  BY <1>7 DEF Queue, R
<1>9. \A n, m, k \in Nat : k \in 1..m => /\ n + k \in 1..(n + m) /\ ~(n + k <= n) /\ n + k - n = k
  OBVIOUS
<1>10. Len(calls) - 1 \in Nat /\ Len(rest) = Len(calls) - 1
  BY <1>3, <1>5
<1>11. \A k \in 1..Len(ops) : calls'[Len(calls) - 1 + k] = Sent(ops)[k]
  <2>1. ASSUME NEW k \in 1..Len(ops) PROVE calls'[Len(rest) + k] = Sent(ops)[k]
    <3>1. Len(rest) \in Nat /\ k \in Nat
      BY <1>10
    <3>2. /\ Len(rest) + k \in 1..(Len(rest) + Len(ops)) /\ ~(Len(rest) + k <= Len(rest))
          /\ Len(rest) + k - Len(rest) = k
      BY <1>3, <1>9, <3>1
    <3> QED BY <1>4, <1>7, <3>2
  <2> QED BY <1>10, <2>1
<1>12. \A k \in 1..(Len(calls) - 1) : calls'[k] = calls[k + 1]
  <2>1. \A n, m \in Nat : \A k \in 1..n : k \in 1..(n + m) /\ k <= n
    OBVIOUS
  <2>2. \A k \in 1..Len(rest) : calls'[k] = rest[k]
    BY <1>3, <1>4, <1>7, <1>10, <2>1
  <2> QED BY <1>5, <1>10, <2>2
<1> QED BY <1>1, <1>3, <1>4, <1>7, <1>8, <1>10, <1>11, <1>12 DEF Moves, Moved2

\* The server takes up a request, or loses it.
LEMMA ServeServes ==
  ASSUME Queue(calls), NEW i \in ToServe, NEW answer, calls' = [calls EXCEPT ![i].answer = answer]
  PROVE  Serves(i, answer)
<1>1. PICK Ops, Answers : calls \in Seq([op : Ops, answer : Answers])
  BY DEF Queue
<1>2. Len(calls) \in Nat /\ DOMAIN calls = 1..Len(calls) /\ i \in DOMAIN calls
      /\ \A j \in 1..Len(calls) : calls[j] \in [op : Ops, answer : Answers]
  BY <1>1, LenProperties, ElementOfSeq DEF ToServe
<1> DEFINE R == [op : Ops, answer : Answers \cup {answer}]
<1>3. calls' \in [1..Len(calls) -> R]
  BY <1>2
<1>4. \A j \in DOMAIN calls : /\ calls'[j].op = calls[j].op
                              /\ j # i => calls'[j] = calls[j]
  BY <1>2
<1>5. calls'[i].answer = answer
  BY <1>2
<1> HIDE DEF R
<1>6. calls' \in Seq(R) /\ Len(calls') = Len(calls)
  <2>1. PICK c : c = calls'
    OBVIOUS
  <2>2. Len(calls) \in Nat /\ c \in [1..Len(calls) -> R]
    BY <1>2, <1>3, <2>1
  <2>3. c \in Seq(R) /\ Len(c) = Len(calls)
    BY <2>2, IsSequence
  <2> QED BY <2>1, <2>3
<1>7. Queue(calls')
  BY <1>6 DEF Queue, R
<1> QED BY <1>4, <1>5, <1>6, <1>7 DEF Serves

LEMMA Served ==
  ASSUME Queue(calls), NEW i \in ToServe, NEW answer, Serve(i, answer)
  PROVE  Serves(i, answer) \/ Serves(i, Failed)
BY ServeServes DEF Serve

LEMMA Lost ==
  ASSUME Queue(calls), LoseRequest
  PROVE  \E i \in ToServe : Serves(i, Failed)
BY ServeServes DEF LoseRequest

\* What is in the queue after a step of the page: what was, in its order, then what
\* was sent.
LEMMA MovesShape ==
  ASSUME QueueInv, NEW d, NEW ops, Moves(d, ops)
  PROVE  /\ Len(calls) \in Nat /\ DOMAIN calls = 1..Len(calls)
         /\ Len(calls') \in Nat /\ DOMAIN calls' = 1..Len(calls')
         /\ \A i \in DOMAIN calls' :
              \/ i + d \in DOMAIN calls /\ calls'[i] = calls[i + d]
              \/ /\ i + d > Len(calls) /\ calls'[i].answer = Waiting
                 /\ \E k \in 1..Len(ops) : calls'[i].op = ops[k]
         /\ \A j \in DOMAIN calls : j > d => j - d \in DOMAIN calls' /\ calls'[j - d] = calls[j]
         /\ \A k \in 1..Len(ops) : \E j \in DOMAIN calls' :
              j + d > Len(calls) /\ calls'[j] = [op |-> ops[k], answer |-> Waiting]
         /\ QueueInv'
<1>1. /\ Len(calls) \in Nat /\ DOMAIN calls = 1..Len(calls)
      /\ Len(calls') \in Nat /\ DOMAIN calls' = 1..Len(calls') /\ Queue(calls')
  BY QueueShape DEF QueueInv, Moves
<1>2. d \in {0, 1} /\ d <= Len(calls) /\ Len(ops) \in Nat
  BY DEF Moves
<1>3. Moved2(calls, calls', d, ops)
  BY DEF Moves
<1>4. ASSUME NEW i \in DOMAIN calls', i + d \notin DOMAIN calls
      PROVE  /\ i + d > Len(calls) /\ calls'[i].answer = Waiting
             /\ \E k \in 1..Len(ops) : calls'[i].op = ops[k]
  <2> DEFINE k == i + d - Len(calls)
  <2>1. k \in 1..Len(ops) /\ Len(calls) - d + k = i /\ i + d > Len(calls)
    <3>1. \A n, m, p \in Nat : \A e \in {0, 1} : \A x \in 1..p :
            p = n - e + m /\ x + e \notin 1..n =>
              /\ x + e - n \in 1..m /\ n - e + (x + e - n) = x /\ x + e > n
      OBVIOUS
    <3>2. Len(calls') = Len(calls) - d + Len(ops)
      BY <1>3 DEF Moved2
    <3> QED BY <1>1, <1>2, <1>4, <3>1, <3>2, SMTT(30)
  <2> HIDE DEF k
  <2>2. calls'[i] = [op |-> ops[k], answer |-> Waiting]
    BY <1>3, <2>1 DEF Moved2
  <2> QED BY <2>1, <2>2
<1>5. \A i \in DOMAIN calls' : i + d \in DOMAIN calls => calls'[i] = calls[i + d]
  BY <1>1, <1>2, <1>3 DEF Moved2
<1>6. ASSUME NEW j \in DOMAIN calls, j > d
      PROVE  j - d \in DOMAIN calls' /\ calls'[j - d] = calls[j]
  <2>1. j - d \in 1..(Len(calls) - d) /\ j - d + d = j /\ j - d \in 1..Len(calls')
    BY <1>1, <1>2, <1>3, <1>6 DEF Moved2
  <2>2. calls'[j - d] = calls[j - d + d]
    BY <1>3, <2>1 DEF Moved2
  <2> QED BY <1>1, <2>1, <2>2
<1>7. ASSUME NEW k \in 1..Len(ops)
      PROVE  \E j \in DOMAIN calls' :
               j + d > Len(calls) /\ calls'[j] = [op |-> ops[k], answer |-> Waiting]
  <2>1. Len(calls) - d + k \in DOMAIN calls' /\ Len(calls) - d + k + d > Len(calls)
    BY <1>1, <1>2, <1>3 DEF Moved2
  <2>2. calls'[Len(calls) - d + k] = [op |-> ops[k], answer |-> Waiting]
    BY <1>3 DEF Moved2
  <2> QED BY <2>1, <2>2
<1>8. InOrder'
  <2> SUFFICES ASSUME NEW i \in DOMAIN calls', NEW j \in 1..(i - 1), calls'[i].answer # Waiting
               PROVE  calls'[j].answer # Waiting
    BY DEF InOrder
  <2>1. PICK x \in DOMAIN calls : x = i + d /\ calls'[i] = calls[x]
    BY <1>4, <1>5
  <2>2. j \in DOMAIN calls' /\ j \in Nat /\ j + d \in DOMAIN calls
    BY <1>1, <1>2, <2>1
  <2>3. PICK y \in 1..(x - 1) : y = j + d
    BY <1>1, <1>2, <2>1, <2>2
  <2>4. calls'[j] = calls[y]
    BY <1>5, <2>2, <2>3
  <2>5. calls[x].answer # Waiting => calls[y].answer # Waiting
    BY <2>1, <2>3 DEF QueueInv, InOrder
  <2> QED BY <2>1, <2>4, <2>5
<1> QED BY <1>1, <1>4, <1>5, <1>6, <1>7, <1>8 DEF QueueInv

\* After a step of the server: only the request it takes up is another one, and what
\* is behind it waits.
LEMMA ServesShape ==
  ASSUME Ordered, QueueInv, NEW i, NEW answer, Serves(i, answer)
  PROVE  /\ Len(calls) \in Nat /\ DOMAIN calls = 1..Len(calls) /\ DOMAIN calls' = DOMAIN calls
         /\ i \in DOMAIN calls /\ calls[i].answer = Waiting /\ calls'[i].answer = answer
         /\ \A j \in DOMAIN calls : /\ calls'[j].op = calls[j].op
                                    /\ j # i => calls'[j] = calls[j]
                                    /\ j > i => calls[j].answer = Waiting
         /\ QueueInv'
<1>1. /\ Len(calls) \in Nat /\ DOMAIN calls = 1..Len(calls) /\ Queue(calls')
      /\ DOMAIN calls' = DOMAIN calls
  BY QueueShape DEF QueueInv, Serves
<1>2. /\ i \in DOMAIN calls /\ calls[i].answer = Waiting
      /\ \A j \in 1..(i - 1) : calls[j].answer # Waiting
  BY DEF Serves, ToServe
<1>3. calls'[i].answer = answer
      /\ \A j \in DOMAIN calls : /\ calls'[j].op = calls[j].op
                                 /\ j # i => calls'[j] = calls[j]
  BY DEF Serves
<1>4. ASSUME NEW j \in DOMAIN calls, j > i PROVE calls[j].answer = Waiting
  <2>1. i \in 1..(j - 1)
    BY <1>1, <1>2, <1>4
  <2> QED BY <1>2, <2>1 DEF QueueInv, InOrder
<1>5. InOrder'
  <2> SUFFICES ASSUME NEW j \in DOMAIN calls, NEW k \in 1..(j - 1), calls'[j].answer # Waiting
               PROVE  calls'[k].answer # Waiting
    BY <1>1 DEF InOrder
  <2>1. k \in DOMAIN calls /\ k < j
    BY <1>1
  <2>2. j <= i
    <3>1. CASE j > i
      BY <1>3, <1>4, <3>1, <1>1, <1>2
    <3> QED BY <1>1, <1>2, <3>1
  <2>3. k \in 1..(i - 1) /\ k # i
    BY <1>1, <1>2, <2>1, <2>2
  <2>4. calls'[k] = calls[k]
    BY <1>3, <2>1, <2>3
  <2> QED BY <1>2, <2>3, <2>4
<1> QED BY <1>1, <1>2, <1>3, <1>4, <1>5 DEF QueueInv

LEMMA SentStarts ==
  ASSUME NEW T, NEW ops \in Seq(T), calls = Sent(ops)
  PROVE  /\ QueueInv /\ DOMAIN calls = 1..Len(ops) /\ Len(calls) = Len(ops)
         /\ \A i \in DOMAIN calls : calls[i].answer = Waiting /\ calls[i].op = ops[i]
<1>1. /\ calls \in Seq([op : T, answer : {Waiting}]) /\ Len(calls) = Len(ops)
      /\ \A k \in 1..Len(ops) : calls[k] = [op |-> ops[k], answer |-> Waiting]
  BY SentType
<1>2. Queue(calls)
  BY <1>1 DEF Queue
<1>3. DOMAIN calls = 1..Len(ops)
  BY <1>1, <1>2, QueueShape
<1>4. \A i \in DOMAIN calls : calls[i].answer = Waiting /\ calls[i].op = ops[i]
  BY <1>1, <1>3
<1>5. InOrder
  BY <1>4 DEF InOrder
<1> QED BY <1>1, <1>2, <1>3, <1>4, <1>5 DEF QueueInv

-----------------------------------------------------------------------------
(* Bookmarks and sources                                                    *)

\* What changes the bookmarks, and the sources, of the server.
Marks(op) == op.kind \in {"bookmark", "unbookmark", "reset"}
Resources(op) == op.kind \in {"add", "addDiscovered", "remove", "reset"}

\* A list that was read has no change behind it only if it is the server's; what the
\* page shows is the server's unless a change or a load is on its way; and a row
\* is shown as being removed only while something is, that ends it.
BookmarksInv ==
  /\ \A i \in DOMAIN calls : calls[i].op.kind = "bookmarks" =>
       \/ calls[i].answer \in {Waiting, Failed, srvBookmarks}
       \/ \E j \in DOMAIN calls : j > i /\ Marks(calls[j].op)
  /\ \/ missed \/ bookmarks = srvBookmarks
     \/ \E i \in DOMAIN calls : calls[i].op.kind = "bookmarks" \/ Marks(calls[i].op)

SourcesInv ==
  /\ \A i \in DOMAIN calls : calls[i].op.kind = "sources" =>
       \/ calls[i].answer \in {Waiting, Failed, srvSources}
       \/ \E j \in DOMAIN calls : j > i /\ Resources(calls[j].op)
  /\ \/ missed \/ sources = srvSources
     \/ \E i \in DOMAIN calls : calls[i].op.kind = "sources" \/ Resources(calls[i].op)

Removal(op) == op.kind = "remove" \/ (op.kind \in {"sources", "discover"} /\ op.arg = "removal")

RemovalInv == removing # None => \E i \in DOMAIN calls : Removal(calls[i].op)

ShelfInv == BookmarksInv /\ SourcesInv /\ RemovalInv

\* Steps of the page that keep what it shows, and lose no request that matters.
LEMMA BookmarksMove ==
  ASSUME QueueInv, BookmarksInv, NEW d, NEW ops, Moves(d, ops), UNCHANGED srvBookmarks,
         missed => missed',
         \/ missed' \/ bookmarks' = srvBookmarks
         \/ \E k \in 1..Len(ops) : ops[k].kind = "bookmarks" \/ Marks(ops[k])
         \/ /\ bookmarks' = bookmarks
            /\ d = 1 => ~(calls[1].op.kind = "bookmarks" \/ Marks(calls[1].op))
         \/ \E j \in DOMAIN calls : j > d /\ Marks(calls[j].op)
  PROVE  BookmarksInv'
<1> USE DEF Marks
<1>1. QueueInv' /\ d \in {0, 1}
  BY MovesShape DEF Moves
<1>2. \A j \in DOMAIN calls : j > d => j - d \in DOMAIN calls' /\ calls'[j - d] = calls[j]
  BY MovesShape
<1>3. ASSUME NEW i \in DOMAIN calls', calls'[i].op.kind = "bookmarks"
      PROVE  \/ calls'[i].answer \in {Waiting, Failed, srvBookmarks}
             \/ \E j \in DOMAIN calls' : j > i /\ Marks(calls'[j].op)
  <2>1. CASE calls'[i].answer = Waiting
    BY <2>1
  <2>2. CASE i + d \in DOMAIN calls /\ calls'[i] = calls[i + d]
    <3>1. CASE \E j \in DOMAIN calls : j > i + d /\ Marks(calls[j].op)
      <4>1. PICK j \in DOMAIN calls : j > i + d /\ Marks(calls[j].op)
        BY <3>1
      <4>2. j > d /\ j - d > i
        BY <1>1, <4>1, MovesShape
      <4>3. j - d \in DOMAIN calls' /\ Marks(calls'[j - d].op)
        BY <1>2, <4>1, <4>2
      <4> QED BY <4>2, <4>3
    <3> QED BY <1>3, <2>2, <3>1 DEF BookmarksInv
  <2> QED BY <2>1, <2>2, MovesShape
<1>4. \/ missed' \/ bookmarks' = srvBookmarks
      \/ \E i \in DOMAIN calls' : calls'[i].op.kind = "bookmarks" \/ Marks(calls'[i].op)
  <2>1. CASE \E k \in 1..Len(ops) : ops[k].kind = "bookmarks" \/ Marks(ops[k])
    <3>1. PICK k \in 1..Len(ops) : ops[k].kind = "bookmarks" \/ Marks(ops[k])
      BY <2>1
    <3>2. PICK j \in DOMAIN calls' : calls'[j] = [op |-> ops[k], answer |-> Waiting]
      BY MovesShape
    <3> QED BY <3>1, <3>2
  <2>2. CASE \E j \in DOMAIN calls : j > d /\ (calls[j].op.kind = "bookmarks" \/ Marks(calls[j].op))
    BY <1>2, <2>2
  <2>3. CASE /\ bookmarks' = bookmarks
             /\ d = 1 => ~(calls[1].op.kind = "bookmarks" \/ Marks(calls[1].op))
    <3>1. \A j \in DOMAIN calls : calls[j].op.kind = "bookmarks" \/ Marks(calls[j].op) => j > d
      BY <1>1, <2>3, MovesShape
    <3> QED BY <2>2, <2>3, <3>1 DEF BookmarksInv
  <2> QED BY <2>1, <2>2, <2>3
<1> QED BY <1>3, <1>4 DEF BookmarksInv

LEMMA SourcesMove ==
  ASSUME QueueInv, SourcesInv, NEW d, NEW ops, Moves(d, ops), UNCHANGED srvSources,
         missed => missed',
         \/ missed' \/ sources' = srvSources
         \/ \E k \in 1..Len(ops) : ops[k].kind = "sources" \/ Resources(ops[k])
         \/ /\ sources' = sources
            /\ d = 1 => ~(calls[1].op.kind = "sources" \/ Resources(calls[1].op))
         \/ \E j \in DOMAIN calls : j > d /\ Resources(calls[j].op)
  PROVE  SourcesInv'
<1> USE DEF Resources
<1>1. QueueInv' /\ d \in {0, 1}
  BY MovesShape DEF Moves
<1>2. \A j \in DOMAIN calls : j > d => j - d \in DOMAIN calls' /\ calls'[j - d] = calls[j]
  BY MovesShape
<1>3. ASSUME NEW i \in DOMAIN calls', calls'[i].op.kind = "sources"
      PROVE  \/ calls'[i].answer \in {Waiting, Failed, srvSources}
             \/ \E j \in DOMAIN calls' : j > i /\ Resources(calls'[j].op)
  <2>1. CASE calls'[i].answer = Waiting
    BY <2>1
  <2>2. CASE i + d \in DOMAIN calls /\ calls'[i] = calls[i + d]
    <3>1. CASE \E j \in DOMAIN calls : j > i + d /\ Resources(calls[j].op)
      <4>1. PICK j \in DOMAIN calls : j > i + d /\ Resources(calls[j].op)
        BY <3>1
      <4>2. j > d /\ j - d > i
        BY <1>1, <4>1, MovesShape
      <4>3. j - d \in DOMAIN calls' /\ Resources(calls'[j - d].op)
        BY <1>2, <4>1, <4>2
      <4> QED BY <4>2, <4>3
    <3> QED BY <1>3, <2>2, <3>1 DEF SourcesInv
  <2> QED BY <2>1, <2>2, MovesShape
<1>4. \/ missed' \/ sources' = srvSources
      \/ \E i \in DOMAIN calls' : calls'[i].op.kind = "sources" \/ Resources(calls'[i].op)
  <2>1. CASE \E k \in 1..Len(ops) : ops[k].kind = "sources" \/ Resources(ops[k])
    <3>1. PICK k \in 1..Len(ops) : ops[k].kind = "sources" \/ Resources(ops[k])
      BY <2>1
    <3>2. PICK j \in DOMAIN calls' : calls'[j] = [op |-> ops[k], answer |-> Waiting]
      BY MovesShape
    <3> QED BY <3>1, <3>2
  <2>2. CASE \E j \in DOMAIN calls : j > d /\ (calls[j].op.kind = "sources" \/ Resources(calls[j].op))
    BY <1>2, <2>2
  <2>3. CASE /\ sources' = sources
             /\ d = 1 => ~(calls[1].op.kind = "sources" \/ Resources(calls[1].op))
    <3>1. \A j \in DOMAIN calls : calls[j].op.kind = "sources" \/ Resources(calls[j].op) => j > d
      BY <1>1, <2>3, MovesShape
    <3> QED BY <2>2, <2>3, <3>1 DEF SourcesInv
  <2> QED BY <2>1, <2>2, <2>3
<1> QED BY <1>3, <1>4 DEF SourcesInv

LEMMA RemovalMove ==
  ASSUME QueueInv, RemovalInv, NEW d, NEW ops, Moves(d, ops),
         \/ removing' = None
         \/ \E k \in 1..Len(ops) : Removal(ops[k])
         \/ removing' = removing /\ (d = 1 => ~Removal(calls[1].op))
  PROVE  RemovalInv'
<1> USE DEF Removal
<1>1. CASE \E k \in 1..Len(ops) : Removal(ops[k])
  <2>1. PICK k \in 1..Len(ops) : Removal(ops[k])
    BY <1>1
  <2>2. PICK j \in DOMAIN calls' : calls'[j] = [op |-> ops[k], answer |-> Waiting]
    BY MovesShape
  <2> QED BY <2>1, <2>2 DEF RemovalInv
<1>2. CASE removing # None /\ removing' = removing /\ (d = 1 => ~Removal(calls[1].op))
  <2>1. PICK j \in DOMAIN calls : Removal(calls[j].op)
    BY <1>2 DEF RemovalInv
  <2>2. j > d
    BY <1>2, <2>1, MovesShape DEF Moves
  <2>3. j - d \in DOMAIN calls' /\ calls'[j - d] = calls[j]
    BY <2>2, MovesShape
  <2> QED BY <2>1, <2>3 DEF RemovalInv
<1> QED BY <1>1, <1>2 DEF RemovalInv

\* The server takes up a request: what is behind it has not been read.
LEMMA ShelfServed ==
  ASSUME Ordered, QueueInv, ShelfInv, NEW i, NEW answer, Serves(i, answer),
         UNCHANGED <<missed, bookmarks, sources, removing>>,
         calls[i].op.kind = "bookmarks" => answer \in {Failed, srvBookmarks},
         calls[i].op.kind = "sources" => answer \in {Failed, srvSources},
         Marks(calls[i].op) \/ srvBookmarks' = srvBookmarks,
         Resources(calls[i].op) \/ srvSources' = srvSources
  PROVE  ShelfInv'
<1>1. /\ DOMAIN calls' = DOMAIN calls /\ i \in DOMAIN calls /\ calls'[i].answer = answer
      /\ DOMAIN calls = 1..Len(calls) /\ Len(calls) \in Nat
      /\ \A j \in DOMAIN calls : /\ calls'[j].op = calls[j].op
                                 /\ j # i => calls'[j] = calls[j]
                                 /\ j > i => calls[j].answer = Waiting
  BY ServesShape
<1>2. BookmarksInv'
  <2>1. CASE Marks(calls[i].op)
    BY <1>1, <2>1 DEF ShelfInv, BookmarksInv, Marks
  <2>2. CASE srvBookmarks' = srvBookmarks
    BY <1>1, <2>2 DEF ShelfInv, BookmarksInv, Marks
  <2> QED BY <2>1, <2>2
<1>3. SourcesInv'
  <2>1. CASE Resources(calls[i].op)
    BY <1>1, <2>1 DEF ShelfInv, SourcesInv, Resources
  <2>2. CASE srvSources' = srvSources
    BY <1>1, <2>2 DEF ShelfInv, SourcesInv, Resources
  <2> QED BY <2>1, <2>2
<1>4. RemovalInv'
  BY <1>1 DEF ShelfInv, RemovalInv, Removal
<1> QED BY <1>2, <1>3, <1>4 DEF ShelfInv
\* The user asks: what is shown stays.
LEMMA ShelfAsked ==
  ASSUME QueueInv, ShelfInv, NEW ops, Moves(0, ops),
         UNCHANGED <<missed, bookmarks, sources, srvBookmarks, srvSources>>,
         removing' = removing \/ \E k \in 1..Len(ops) : Removal(ops[k])
  PROVE  QueueInv' /\ ShelfInv'
<1>1. BookmarksInv'
  BY BookmarksMove DEF ShelfInv
<1>2. SourcesInv'
  BY SourcesMove DEF ShelfInv
<1>3. RemovalInv'
  BY RemovalMove DEF ShelfInv
<1> QED BY <1>1, <1>2, <1>3, MovesShape DEF ShelfInv

\* Answers: after a change the list is loaded, or the page is told of a failure.
LEMMA BookmarkAnswerKeeps ==
  ASSUME Ordered, QueueInv, ShelfInv, NEW i \in ToAnswer, BookmarkAnswer(i),
         calls[i].op.kind \in {"bookmarks", "bookmark", "unbookmark"},
         UNCHANGED <<srvBookmarks, srvSources>>
  PROVE  QueueInv' /\ ShelfInv'
<1>0. i \in DOMAIN calls /\ calls[i].answer # Waiting /\ Queue(calls)
  BY DEF ToAnswer, QueueInv
<1> DEFINE load == <<ShelfOp("bookmarks", None)>>
<1>1. load \in Seq({ShelfOp("bookmarks", None)}) /\ Len(load) = 1 /\ load[1].kind = "bookmarks"
      /\ <<>> \in Seq({None}) /\ Len(<<>>) = 0
  BY DEF ShelfOp
<1> HIDE DEF load
<1>2. sources' = sources /\ removing' = removing /\ (missed => missed')
  BY DEF BookmarkAnswer
<1>3. ~Resources(calls[i].op) /\ ~Removal(calls[i].op) /\ calls[i].op.kind # "sources"
  BY DEF Resources, Removal
<1>4. CASE calls[i].op.kind = "bookmarks"
  <2>1. /\ Answered(i, <<>>) /\ missed' = (missed \/ ~ok(i))
        /\ bookmarks' = IF ok(i) THEN calls[i].answer ELSE {}
    BY <1>4 DEF BookmarkAnswer
  <2>2. i = 1 /\ Moves(1, <<>>)
    BY <1>0, <1>1, <2>1, AnsweredMoves
  <2>3. missed' \/ bookmarks' = srvBookmarks \/ \E j \in DOMAIN calls : j > 1 /\ Marks(calls[j].op)
    BY <1>0, <1>4, <2>1, <2>2 DEF ShelfInv, BookmarksInv, ok
  <2>4. BookmarksInv'
    BY <1>2, <2>2, <2>3, BookmarksMove DEF ShelfInv
  <2>5. SourcesInv'
    BY <1>2, <1>3, <2>2, SourcesMove DEF ShelfInv
  <2>6. RemovalInv'
    BY <1>2, <1>3, <2>2, RemovalMove DEF ShelfInv
  <2> QED BY <2>2, <2>4, <2>5, <2>6, MovesShape DEF ShelfInv
<1>5. CASE calls[i].op.kind # "bookmarks"
  <2>1. Answered(i, load) /\ bookmarks' = bookmarks /\ missed' = missed
    BY <1>5 DEF BookmarkAnswer, AfterBookmark, load
  <2>2. i = 1 /\ Moves(1, load)
    BY <1>0, <1>1, <2>1, AnsweredMoves
  <2>3. \E k \in 1..Len(load) : load[k].kind = "bookmarks" \/ Marks(load[k])
    BY <1>1
  <2>4. BookmarksInv'
    BY <1>2, <2>2, <2>3, BookmarksMove DEF ShelfInv
  <2>5. SourcesInv'
    BY <1>2, <1>3, <2>2, SourcesMove DEF ShelfInv
  <2>6. RemovalInv'
    BY <1>2, <1>3, <2>2, RemovalMove DEF ShelfInv
  <2> QED BY <2>2, <2>4, <2>5, <2>6, MovesShape DEF ShelfInv
<1> QED BY <1>4, <1>5

LEMMA ResetAnswerKeeps ==
  ASSUME Ordered, QueueInv, ShelfInv, NEW i \in ToAnswer, ResetAnswer(i),
         calls[i].op.kind = "reset", UNCHANGED <<srvBookmarks, srvSources>>
  PROVE  QueueInv' /\ ShelfInv'
<1>1. Queue(calls) /\ <<>> \in Seq({None}) /\ Answered(i, <<>>) /\ missed' /\ removing' = removing
  BY DEF QueueInv, ResetAnswer
<1>2. i = 1 /\ Moves(1, <<>>)
  BY <1>1, AnsweredMoves
<1>3. BookmarksInv' /\ SourcesInv'
  BY <1>1, <1>2, BookmarksMove, SourcesMove DEF ShelfInv
<1>4. ~Removal(calls[i].op)
  BY DEF Removal
<1>5. RemovalInv'
  BY <1>1, <1>2, <1>4, RemovalMove DEF ShelfInv
<1> QED BY <1>2, <1>3, <1>5, MovesShape DEF ShelfInv

LEMMA SourceAnswerKeeps ==
  ASSUME Ordered, QueueInv, ShelfInv, NEW i \in ToAnswer, SourceAnswer(i),
         calls[i].op.kind \notin {"bookmarks", "bookmark", "unbookmark", "reset"},
         UNCHANGED <<srvBookmarks, srvSources>>
  PROVE  QueueInv' /\ ShelfInv'
<1>0. i \in DOMAIN calls /\ calls[i].answer # Waiting /\ Queue(calls)
  BY DEF ToAnswer, QueueInv
<1>1. bookmarks' = bookmarks /\ ~Marks(calls[i].op) /\ calls[i].op.kind # "bookmarks"
  BY DEF SourceAnswer, Marks
<1>2. ASSUME NEW ops, NEW T, ops \in Seq(T), Answered(i, ops), missed => missed',
             \/ missed' \/ sources' = srvSources
             \/ \E k \in 1..Len(ops) : ops[k].kind = "sources" \/ Resources(ops[k])
             \/ /\ sources' = sources
                /\ ~(calls[i].op.kind = "sources" \/ Resources(calls[i].op))
             \/ \E j \in DOMAIN calls : j > 1 /\ Resources(calls[j].op),
             \/ removing' = None
             \/ \E k \in 1..Len(ops) : Removal(ops[k])
             \/ removing' = removing /\ ~Removal(calls[i].op)
      PROVE  QueueInv' /\ ShelfInv'
  <2>1. i = 1 /\ Moves(1, ops)
    BY <1>0, <1>2, AnsweredMoves
  <2>2. BookmarksInv'
    BY <1>1, <1>2, <2>1, BookmarksMove DEF ShelfInv
  <2>3. SourcesInv'
    BY <1>2, <2>1, SourcesMove DEF ShelfInv
  <2>4. RemovalInv'
    BY <1>2, <2>1, RemovalMove DEF ShelfInv
  <2> QED BY <2>1, <2>2, <2>3, <2>4, MovesShape DEF ShelfInv
<1>3. <<>> \in Seq({None}) /\ Len(<<>>) = 0
  OBVIOUS
<1>4. \A op : <<op>> \in Seq({op}) /\ Len(<<op>>) = 1 /\ <<op>>[1] = op
  OBVIOUS
<1>5. i = 1
  BY DEF ToAnswer
<1>6. CASE calls[i].op.kind = "sources"
  <2> DEFINE list == IF ok(i) THEN calls[i].answer ELSE {}
             more == <<ShelfOp("discover", calls[i].op.arg)>>
  <2>1. SourcesAnswer(i)
    BY <1>6 DEF SourceAnswer
  <2>2. sources' = list /\ missed' = (missed \/ ~ok(i))
    BY <2>1 DEF SourcesAnswer
  <2>3. missed' \/ sources' = srvSources \/ \E j \in DOMAIN calls : j > 1 /\ Resources(calls[j].op)
    BY <1>0, <1>5, <1>6, <2>2 DEF ShelfInv, SourcesInv, ok
  <2>4. CASE Answered(i, more) /\ removing' = removing
    <3>1. more \in Seq({more[1]}) /\ Len(more) = 1
          /\ more[1].kind = "discover" /\ more[1].arg = calls[i].op.arg
      BY DEF ShelfOp
    <3> HIDE DEF more
    <3>2. Removal(calls[i].op) => \E k \in 1..Len(more) : Removal(more[k])
      BY <1>6, <3>1 DEF Removal
    <3>3. missed => missed'
      BY <2>2
    <3>4. \/ \E k \in 1..Len(more) : Removal(more[k])
          \/ removing' = removing /\ ~Removal(calls[i].op)
      BY <2>4, <3>2
    <3> QED BY <1>2, <2>3, <2>4, <3>1, <3>3, <3>4
  <2>5. CASE Answered(i, <<>>) /\ Waited(calls[i].op)
    <3>1. removing' = None \/ (removing' = removing /\ ~Removal(calls[i].op))
      BY <1>6, <2>5 DEF Waited, Removal
    <3> QED BY <1>2, <1>3, <2>2, <2>3, <2>5, <3>1
  <2>6. \/ Answered(i, more) /\ removing' = removing
        \/ Answered(i, <<>>) /\ Waited(calls[i].op)
    BY <2>1 DEF SourcesAnswer
  <2> QED BY <2>4, <2>5, <2>6
<1>7. CASE calls[i].op.kind = "discover"
  <2>1. /\ Waited(calls[i].op) /\ Answered(i, <<>>) /\ sources' = sources /\ missed' = missed
    BY <1>7 DEF SourceAnswer, DiscoverAnswer
  <2>2. removing' = None \/ (removing' = removing /\ ~Removal(calls[i].op))
    BY <1>7, <2>1 DEF Waited, Removal
  <2>3. ~(calls[i].op.kind = "sources" \/ Resources(calls[i].op))
    BY <1>7 DEF Resources
  <2> QED BY <1>2, <1>3, <2>1, <2>2, <2>3
<1>8. CASE calls[i].op.kind \in {"add", "addDiscovered"}
  <2>1. /\ SourceChanged(i) /\ sources' = sources /\ removing' = removing
        /\ missed' = (missed \/ ~ok(i))
    BY <1>8 DEF SourceAnswer, SourceChanged
  <2>2. ~Removal(calls[i].op)
    BY <1>8 DEF Removal
  <2>3. CASE ok(i)
    <3> DEFINE load == <<ShelfOp("sources", "add")>>
    <3>1. Answered(i, load)
      BY <1>8, <2>1, <2>3 DEF SourceChanged
    <3>2. load \in Seq({load[1]}) /\ Len(load) = 1 /\ load[1].kind = "sources"
      BY DEF ShelfOp
    <3> HIDE DEF load
    <3>3. \E k \in 1..Len(load) : load[k].kind = "sources" \/ Resources(load[k])
      BY <3>2
    <3> QED BY <1>2, <2>1, <2>2, <3>1, <3>2, <3>3
  <2>4. CASE ~ok(i)
    <3>1. Answered(i, <<>>)
      BY <1>8, <2>1, <2>4 DEF SourceChanged
    <3> QED BY <1>2, <1>3, <2>1, <2>2, <2>4, <3>1
  <2> QED BY <2>3, <2>4
<1>9. CASE calls[i].op.kind \notin {"sources", "discover", "add", "addDiscovered"}
  <2> DEFINE load == <<ShelfOp("sources", "removal")>>
  <2>1. Answered(i, load) /\ sources' = sources /\ removing' = removing /\ (missed => missed')
    BY <1>9 DEF SourceAnswer, SourceChanged
  <2>2. load \in Seq({load[1]}) /\ Len(load) = 1 /\ load[1].kind = "sources"
        /\ load[1].arg = "removal"
    BY DEF ShelfOp
  <2> HIDE DEF load
  <2>3. /\ \E k \in 1..Len(load) : load[k].kind = "sources" \/ Resources(load[k])
        /\ \E k \in 1..Len(load) : Removal(load[k])
    BY <2>2 DEF Removal
  <2> QED BY <1>2, <2>1, <2>2, <2>3
<1> QED BY <1>6, <1>7, <1>8, <1>9

\* The shelf's steps.
LEMMA ShelfKeeps ==
  ASSUME Ordered, QueueInv, ShelfInv, ShelfNext
  PROVE  QueueInv' /\ ShelfInv'
<1>0. Queue(calls)
  BY DEF QueueInv
<1>1. CASE ServeShelf
  <2>1. PICK i \in ToServe :
          /\ Serve(i, CASE calls[i].op.kind = "bookmarks" -> srvBookmarks
                        [] calls[i].op.kind = "sources"   -> srvSources
                        [] calls[i].op.kind = "discover"  -> Paths \ srvSources
                        [] OTHER                          -> "done")
          /\ Marks(calls[i].op) \/ srvBookmarks' = srvBookmarks
          /\ Resources(calls[i].op) \/ srvSources' = srvSources
          /\ UNCHANGED <<missed, bookmarks, sources, removing>>
    BY <1>1 DEF ServeShelf, Marks, Resources
  <2>2. PICK answer :
          /\ Serves(i, answer)
          /\ calls[i].op.kind = "bookmarks" => answer \in {Failed, srvBookmarks}
          /\ calls[i].op.kind = "sources" => answer \in {Failed, srvSources}
    BY <1>0, <2>1, Served
  <2> QED BY <2>1, <2>2, ShelfServed, ServesShape
<1>2. CASE LoseRequest /\ UNCHANGED <<acts, missed, shelfVars>>
  <2>1. PICK i \in ToServe : Serves(i, Failed)
    BY <1>0, <1>2, Lost
  <2>2. UNCHANGED <<missed, srvBookmarks, bookmarks, srvSources, sources, removing>>
    BY <1>2 DEF shelfVars
  <2> QED BY <2>1, <2>2, ShelfServed, ServesShape
<1>3. CASE ShelfAnswer
  <2>1. PICK i \in ToAnswer :
          /\ CASE calls[i].op.kind \in {"bookmarks", "bookmark", "unbookmark"} -> BookmarkAnswer(i)
               [] calls[i].op.kind = "reset" -> ResetAnswer(i)
               [] OTHER                      -> SourceAnswer(i)
          /\ UNCHANGED <<srvBookmarks, srvSources>>
    BY <1>3 DEF ShelfAnswer
  <2>2. CASE calls[i].op.kind \in {"bookmarks", "bookmark", "unbookmark"}
    BY <2>1, <2>2, BookmarkAnswerKeeps
  <2>3. CASE calls[i].op.kind = "reset"
    BY <2>1, <2>3, ResetAnswerKeeps
  <2>4. CASE calls[i].op.kind \notin {"bookmarks", "bookmark", "unbookmark", "reset"}
    BY <2>1, <2>4, SourceAnswerKeeps
  <2> QED BY <2>2, <2>3, <2>4
<1>4. CASE handleRemove
  <2>1. PICK p : removing' = p /\ Send(ShelfOp("remove", p))
    BY <1>4 DEF handleRemove
  <2>2. Moves(0, <<ShelfOp("remove", p)>>)
    BY <1>0, <2>1, SendMoves
  <2>3. UNCHANGED <<missed, bookmarks, sources, srvBookmarks, srvSources>>
    BY <1>4 DEF handleRemove, shelfRest, bookmarkVars
  <2> DEFINE ops == <<ShelfOp("remove", p)>>
  <2>4. Len(ops) = 1 /\ Removal(ops[1])
    BY DEF Removal, ShelfOp
  <2> HIDE DEF ops
  <2>5. \E k \in 1..Len(ops) : Removal(ops[k])
    BY <2>4
  <2>6. Moves(0, ops)
    BY <2>2 DEF ops
  <2> QED BY <2>3, <2>5, <2>6, ShelfAsked
<1>5. CASE BookmarkAct \/ FilterSources \/ Reset \/ handleAdd \/ handleAddDiscovered \/ dismissPending
  <2>1. /\ UNCHANGED <<missed, bookmarks, sources, srvBookmarks, srvSources, removing>>
        /\ UNCHANGED calls \/ \E op : Send(op)
    BY <1>5 DEF BookmarkAct, FilterSources, Reset, handleAdd, handleAddDiscovered, dismissPending,
                shelfVars, shelfRest, bookmarkVars, sourceVars
  <2>2. \E ops : Moves(0, ops)
    BY <1>0, <2>1, SendMoves
  <2> QED BY <2>1, <2>2, ShelfAsked
<1> QED BY <1>1, <1>2, <1>3, <1>4, <1>5 DEF ShelfNext

-----------------------------------------------------------------------------
(* Prompts                                                                  *)

\* An answer that brings the panel another list than the server's: a prompt that was
\* created, or a list read before a change.
IsLate(i) ==
  /\ calls[i].answer \notin {Waiting, Failed}
  /\ \/ calls[i].op.kind = "create"
     \/ calls[i].op.kind = "prompts" /\ calls[i].answer # View(srvPrompts)

\* A request that a load follows, unless the server announces a change of its own.
Reloads(call) ==
  \/ call.op.kind \in {"prompts", "count"}
  \/ call.op.kind # "create" /\ call.answer \in {Waiting, Failed}

\* Every change of the server is announced behind the answers that miss it.
PromptsInv ==
  /\ announced \in Nat
  /\ \A i \in DOMAIN calls : IsLate(i) =>
       announced > 0 \/ \E j \in DOMAIN calls : j > i /\ calls[j].op.kind = "count"
  /\ \/ missed \/ prompts = View(srvPrompts) \/ announced > 0
     \/ \E i \in DOMAIN calls : Reloads(calls[i])

LEMMA PromptsMove ==
  ASSUME QueueInv, PromptsInv, NEW d, NEW ops, Moves(d, ops),
         announced' \in Nat,
         announced > 0 => announced' > 0 \/ \E k \in 1..Len(ops) : ops[k].kind = "count",
         srvPrompts' = srvPrompts \/ announced' > 0,
         \/ missed' \/ prompts' = View(srvPrompts)
         \/ \E k \in 1..Len(ops) : ops[k].kind # "create"
         \/ prompts' = prompts /\ missed' = missed /\ (d = 1 => ~Reloads(calls[1]))
         \/ announced > 0
         \/ \E j \in DOMAIN calls : j > d /\ calls[j].op.kind = "count"
  PROVE  PromptsInv'
<1>1. QueueInv' /\ d \in {0, 1} /\ Len(calls) \in Nat
  BY MovesShape DEF Moves
<1>2. \A j \in DOMAIN calls : j > d => j - d \in DOMAIN calls' /\ calls'[j - d] = calls[j]
  BY MovesShape
<1>3. \A k \in 1..Len(ops) : \E j \in DOMAIN calls' :
        j + d > Len(calls) /\ calls'[j] = [op |-> ops[k], answer |-> Waiting]
  BY MovesShape
<1>4. announced' \in Nat
  OBVIOUS
<1>5. CASE announced' > 0
  BY <1>5 DEF PromptsInv
<1>6. CASE ~(announced' > 0)
  <2>0. srvPrompts' = srvPrompts
    BY <1>6
  <2>1. ASSUME NEW i \in DOMAIN calls', IsLate(i)'
        PROVE  \E j \in DOMAIN calls' : j > i /\ calls'[j].op.kind = "count"
    <3>1. i + d \in DOMAIN calls /\ calls'[i] = calls[i + d] /\ i \in Nat
      BY <2>1, MovesShape DEF IsLate
    <3>2. IsLate(i + d)
      BY <2>0, <2>1, <3>1 DEF IsLate
    <3>3. CASE announced > 0
      <4>1. PICK k \in 1..Len(ops) : ops[k].kind = "count"
        BY <1>6, <3>3
      <4>2. PICK j \in DOMAIN calls' :
              j + d > Len(calls) /\ calls'[j] = [op |-> ops[k], answer |-> Waiting]
        BY <1>3
      <4>3. j > i
        BY <1>1, <3>1, <4>2, MovesShape
      <4> QED BY <4>1, <4>2, <4>3
    <3>4. CASE ~(announced > 0)
      <4>1. PICK j \in DOMAIN calls : j > i + d /\ calls[j].op.kind = "count"
        BY <3>1, <3>2, <3>4 DEF PromptsInv
      <4>2. j > d /\ j - d > i
        BY <1>1, <3>1, <4>1, MovesShape
      <4> QED BY <1>2, <4>1, <4>2
    <3> QED BY <3>3, <3>4
  <2>2. \/ missed' \/ prompts' = View(srvPrompts)
        \/ \E i \in DOMAIN calls' : Reloads(calls'[i])
    <3>1. CASE \E k \in 1..Len(ops) : ops[k].kind # "create"
      <4>1. PICK k \in 1..Len(ops) : ops[k].kind # "create"
        BY <3>1
      <4>2. PICK j \in DOMAIN calls' : calls'[j] = [op |-> ops[k], answer |-> Waiting]
        BY <1>3
      <4>3. Reloads(calls'[j])
        BY <4>1, <4>2 DEF Reloads
      <4> QED BY <4>3
    <3>2. CASE \E j \in DOMAIN calls : j > d /\ Reloads(calls[j])
      BY <1>2, <3>2
    <3>3. CASE announced > 0
      BY <1>6, <3>1, <3>3
    <3>4. CASE /\ prompts' = prompts /\ missed' = missed /\ (d = 1 => ~Reloads(calls[1]))
               /\ ~(announced > 0)
      <4>1. \A j \in DOMAIN calls : Reloads(calls[j]) => j > d
        BY <1>1, <3>4, MovesShape
      <4> QED BY <3>2, <3>4, <4>1 DEF PromptsInv
    <3>5. CASE \E j \in DOMAIN calls : j > d /\ calls[j].op.kind = "count"
      BY <3>2, <3>5 DEF Reloads
    <3> QED BY <3>1, <3>3, <3>4, <3>5
  <2> QED BY <1>4, <2>0, <2>1, <2>2 DEF PromptsInv
<1> QED BY <1>5, <1>6

LEMMA PromptServed ==
  ASSUME Ordered, QueueInv, PromptsInv, NEW i, NEW answer, Serves(i, answer),
         UNCHANGED <<missed, prompts>>,
         \/ announced' = announced + 1
         \/ answer = Failed /\ UNCHANGED <<srvPrompts, announced>>
         \/ /\ ~IsChange(calls[i].op) /\ UNCHANGED <<srvPrompts, announced>>
            /\ calls[i].op.kind = "prompts" => answer \in {Failed, View(srvPrompts)}
  PROVE  PromptsInv'
<1>1. /\ DOMAIN calls' = DOMAIN calls /\ i \in DOMAIN calls /\ calls'[i].answer = answer
      /\ \A j \in DOMAIN calls : /\ calls'[j].op = calls[j].op
                                 /\ j # i => calls'[j] = calls[j]
  BY ServesShape
<1>2. CASE announced' = announced + 1
  <2>1. announced' \in Nat /\ announced' > 0
    BY <1>2 DEF PromptsInv
  <2> QED BY <2>1 DEF PromptsInv
<1>3. CASE /\ ~IsChange(calls[i].op) /\ UNCHANGED <<srvPrompts, announced>>
           /\ calls[i].op.kind = "prompts" => answer \in {Failed, View(srvPrompts)}
  <2>1. calls[i].op.kind \in {"prompts", "count"}
    BY <1>3 DEF IsChange
  <2>2. ASSUME NEW j \in DOMAIN calls, IsLate(j)' PROVE IsLate(j)
    <3>1. CASE j = i
      BY <1>1, <1>3, <2>1, <2>2, <3>1 DEF IsLate
    <3>2. CASE j # i
      BY <1>1, <1>3, <2>2, <3>2 DEF IsLate
    <3> QED BY <3>1, <3>2
  <2>3. \E j \in DOMAIN calls : Reloads(calls'[j])
    BY <1>1, <2>1 DEF Reloads
  <2> QED BY <1>1, <1>3, <2>2, <2>3 DEF PromptsInv
<1>4. CASE answer = Failed /\ UNCHANGED <<srvPrompts, announced>>
  <2>1. ASSUME NEW j \in DOMAIN calls, IsLate(j)' PROVE IsLate(j)
    BY <1>1, <1>4, <2>1 DEF IsLate
  <2>2. ASSUME NEW j \in DOMAIN calls, Reloads(calls[j]) PROVE Reloads(calls'[j])
    <3>1. CASE j = i
      BY <1>1, <1>4, <2>2, <3>1 DEF Reloads
    <3> QED BY <1>1, <2>2, <3>1
  <2> QED BY <1>1, <1>4, <2>1, <2>2 DEF PromptsInv
<1> QED BY <1>2, <1>3, <1>4

LEMMA PromptAnswerKeeps ==
  ASSUME Ordered, QueueInv, PromptsInv, PromptAnswer
  PROVE  QueueInv' /\ PromptsInv'
<1>1. PICK i \in ToAnswer :
        LET op == calls[i].op IN
        /\ CASE op.kind = "prompts" ->
                  /\ prompts' = IF ok(i) THEN calls[i].answer ELSE prompts
                  /\ missed' = ~ok(i) /\ Answered(i, <<>>)
             [] op.kind = "count" ->
                  /\ missed' = (missed \/ ~ok(i))
                  /\ Answered(i, IF ok(i) THEN <<LoadPrompts>> ELSE <<>>)
                  /\ prompts' = prompts
             [] op.kind = "create" -> missed' = missed /\ Answered(i, <<>>)
                                      /\ (~ok(i) => prompts' = prompts)
             [] OTHER -> /\ Answered(i, AfterChange(op, ok(i)))
                         /\ prompts' = prompts /\ missed' = missed
        /\ UNCHANGED <<srvPrompts, announced>>
  BY DEF PromptAnswer, composer
<1>2. Queue(calls) /\ i = 1 /\ i \in DOMAIN calls /\ calls[i].answer # Waiting
  BY DEF QueueInv, ToAnswer
<1>3. <<>> \in Seq({None}) /\ Len(<<>>) = 0 /\ announced \in Nat
  BY DEF PromptsInv
<1> DEFINE load == <<LoadPrompts>>
<1>4. load \in Seq({LoadPrompts}) /\ Len(load) = 1 /\ load[1].kind # "create"
  BY DEF LoadPrompts, Change
<1> HIDE DEF load
<1>5. \E k \in 1..Len(load) : load[k].kind # "create"
  BY <1>4
<1>6. IsLate(1) => announced > 0 \/ \E j \in DOMAIN calls : j > 1 /\ calls[j].op.kind = "count"
  BY <1>2 DEF PromptsInv
<1>7. CASE calls[i].op.kind = "prompts"
  <2>1. /\ prompts' = IF ok(i) THEN calls[i].answer ELSE prompts
        /\ missed' = ~ok(i) /\ Answered(i, <<>>) /\ UNCHANGED <<srvPrompts, announced>>
    BY <1>1, <1>7
  <2>2. Moves(1, <<>>)
    BY <1>2, <1>3, <2>1, AnsweredMoves
  <2>3. missed' \/ prompts' = View(srvPrompts) \/ IsLate(1)
    BY <1>2, <1>7, <2>1 DEF ok, IsLate
  <2> QED BY <1>3, <1>6, <2>1, <2>2, <2>3, PromptsMove, MovesShape
<1>8. CASE calls[i].op.kind = "count"
  <2>1. CASE ok(i)
    <3>1. Answered(i, load) /\ UNCHANGED <<srvPrompts, announced>>
      BY <1>1, <1>8, <2>1 DEF load
    <3>2. Moves(1, load)
      BY <1>2, <1>4, <3>1, AnsweredMoves
    <3> QED BY <1>3, <1>5, <3>1, <3>2, PromptsMove, MovesShape
  <2>2. CASE ~ok(i)
    <3>1. Answered(i, <<>>) /\ UNCHANGED <<srvPrompts, announced>> /\ missed'
      BY <1>1, <1>8, <2>2
    <3>2. Moves(1, <<>>)
      BY <1>2, <1>3, <3>1, AnsweredMoves
    <3> QED BY <1>3, <3>1, <3>2, PromptsMove, MovesShape
  <2> QED BY <2>1, <2>2
<1>9. CASE calls[i].op.kind = "create"
  <2>1. /\ missed' = missed /\ Answered(i, <<>>) /\ (~ok(i) => prompts' = prompts)
        /\ UNCHANGED <<srvPrompts, announced>>
    BY <1>1, <1>9
  <2>2. Moves(1, <<>>)
    BY <1>2, <1>3, <2>1, AnsweredMoves
  <2>3. IsLate(1) \/ prompts' = prompts
    BY <1>2, <1>9, <2>1 DEF ok, IsLate
  <2>4. ~Reloads(calls[1])
    BY <1>2, <1>9 DEF Reloads
  <2> QED BY <1>3, <1>6, <2>1, <2>2, <2>3, <2>4, PromptsMove, MovesShape
<1>10. CASE calls[i].op.kind \notin {"prompts", "count", "create"}
  <2>1. /\ Answered(i, IF ok(i) THEN <<>> ELSE load) /\ prompts' = prompts /\ missed' = missed
        /\ UNCHANGED <<srvPrompts, announced>>
    BY <1>1, <1>10 DEF AfterChange, load
  <2>2. CASE ok(i)
    <3>1. Moves(1, <<>>)
      BY <1>2, <1>3, <2>1, <2>2, AnsweredMoves
    <3>2. ~Reloads(calls[1])
      BY <1>2, <1>10, <2>2 DEF Reloads, ok
    <3> QED BY <1>3, <2>1, <3>1, <3>2, PromptsMove, MovesShape
  <2>3. CASE ~ok(i)
    <3>1. Moves(1, load)
      BY <1>2, <1>4, <2>1, <2>3, AnsweredMoves
    <3> QED BY <1>3, <1>5, <2>1, <3>1, PromptsMove, MovesShape
  <2> QED BY <2>2, <2>3
<1> QED BY <1>7, <1>8, <1>9, <1>10

\* Whatever the user does, a change of the list is sent with it.
LEMMA PromptKeeps ==
  ASSUME Ordered, QueueInv, PromptsInv, PromptNext
  PROVE  QueueInv' /\ PromptsInv'
<1>0. Queue(calls) /\ announced \in Nat
  BY DEF QueueInv, PromptsInv
<1>1. CASE ServePrompt
  <2>1. PICK i \in ToServe :
          /\ Serve(i, CASE calls[i].op.kind = "prompts" -> View(srvPrompts)
                        [] calls[i].op.kind = "create"  -> created
                        [] OTHER                        -> "done")
          /\ IF IsChange(calls[i].op) THEN announced' = announced + 1
             ELSE UNCHANGED <<srvPrompts, announced>>
          /\ UNCHANGED <<missed, prompts>>
    BY <1>1 DEF ServePrompt
  <2>2. PICK answer :
          /\ Serves(i, answer)
          /\ calls[i].op.kind = "prompts" => answer \in {Failed, View(srvPrompts)}
    BY <1>0, <2>1, Served
  <2> QED BY <2>1, <2>2, PromptServed, ServesShape
<1>2. CASE LoseRequest /\ UNCHANGED <<acts, missed, promptVars>>
  <2>1. PICK i \in ToServe : Serves(i, Failed)
    BY <1>0, <1>2, Lost
  <2>2. UNCHANGED <<missed, prompts, srvPrompts, announced>>
    BY <1>2 DEF promptVars
  <2> QED BY <2>1, <2>2, PromptServed, ServesShape
<1>3. CASE OtherTabChange
  <2>1. UNCHANGED calls /\ announced' = announced + 1 /\ UNCHANGED <<missed, prompts>>
    BY <1>3 DEF OtherTabChange
  <2>2. Moves(0, <<>>)
    BY <1>0, <2>1, SendMoves
  <2> QED BY <1>0, <2>1, <2>2, PromptsMove, MovesShape
<1>4. CASE PromptsChanged
  <2> DEFINE ops == <<CountPrompts>>
  <2>1. /\ Send(CountPrompts) /\ announced' = announced - 1 /\ announced > 0
        /\ UNCHANGED <<missed, prompts, srvPrompts>>
    BY <1>4 DEF PromptsChanged
  <2>2. Moves(0, ops)
    BY <1>0, <2>1, SendMoves
  <2>3. Len(ops) = 1 /\ ops[1].kind = "count"
    BY DEF CountPrompts, Change
  <2> HIDE DEF ops
  <2>4. \E k \in 1..Len(ops) : ops[k].kind = "count" /\ ops[k].kind # "create"
    BY <2>3
  <2>5. announced' \in Nat
    BY <1>0, <2>1
  <2> QED BY <2>1, <2>2, <2>4, <2>5, PromptsMove, MovesShape
<1>5. ASSUME UNCHANGED <<missed, srvPrompts, announced>>,
             \/ UNCHANGED <<calls, prompts>>
             \/ (\E op : Send(op)) /\ UNCHANGED prompts
             \/ \E op : op.kind # "create" /\ Send(op)
      PROVE  QueueInv' /\ PromptsInv'
  <2>1. PICK ops : /\ Moves(0, ops)
                   /\ UNCHANGED prompts \/ \E k \in 1..Len(ops) : ops[k].kind # "create"
    <3>1. CASE UNCHANGED <<calls, prompts>>
      BY <1>0, <3>1, SendMoves
    <3>2. CASE (\E op : Send(op)) /\ UNCHANGED prompts
      BY <1>0, <3>2, SendMoves
    <3>3. CASE \E op : op.kind # "create" /\ Send(op)
      <4>1. PICK op : op.kind # "create" /\ Send(op)
        BY <3>3
      <4>2. Moves(0, <<op>>) /\ Len(<<op>>) = 1 /\ <<op>>[1].kind # "create"
        BY <1>0, <4>1, SendMoves
      <4>3. \E k \in 1..Len(<<op>>) : <<op>>[k].kind # "create"
        BY <4>2
      <4> QED BY <4>2, <4>3
    <3> QED BY <1>5, <3>1, <3>2, <3>3
  <2> QED BY <1>0, <1>5, <2>1, PromptsMove, MovesShape
<1>6. CASE Type \/ EnterPrompt \/ handlePaste \/ ClipboardRead \/ handleComposerPaste
  BY <1>5, <1>6 DEF Type, EnterPrompt, handlePaste, ClipboardRead, handleComposerPaste, handleCreate,
                    quiet
<1>7. CASE handleStartEdit \/ DragStart
  BY <1>5, <1>7 DEF handleStartEdit, DragStart
<1>8. CASE RowAction
  <2>1. PICK p, op : op \in Offered(p) /\ Send(op) /\ UNCHANGED <<missed, srvPrompts, announced>>
    BY <1>8 DEF RowAction
  <2>2. op.kind # "create"
    BY <2>1 DEF Offered, Change
  <2> QED BY <1>5, <2>1, <2>2
<1>9. CASE handleSaveEdit
  <2>1. Change("text", editing, "second").kind # "create"
    BY DEF Change
  <2> QED BY <1>5, <1>9, <2>1 DEF handleSaveEdit
<1>10. CASE handleDrop
  <2>1. \A rows0 : Change("reorder", None, PromptIds(rows0)).kind # "create"
    BY DEF Change
  <2>2. /\ UNCHANGED <<missed, srvPrompts, announced>>
        /\ UNCHANGED <<calls, prompts>> \/ \E rows0 : Send(Change("reorder", None, PromptIds(rows0)))
    BY <1>10 DEF handleDrop
  <2> QED BY <1>5, <2>1, <2>2
<1> QED BY <1>1, <1>2, <1>3, <1>4, <1>6, <1>7, <1>8, <1>9, <1>10, PromptAnswerKeeps DEF PromptNext

-----------------------------------------------------------------------------
(* Tags                                                                     *)

\* What changes the tags of the server.
Edits(op) == op.kind \notin {"tags", "tagSessions", "sessionTags"}

\* A load of the panel's list, of the header's, of what is under a tag, which the list
\* leads to.
LoadsTags(op) == op.kind = "tags" /\ op.by # "dialog"
LoadsHeader(op) == op.kind = "sessionTags" /\ op.by # "dialog"
LoadsUnder(op, t) == LoadsTags(op) \/ (op.kind = "tagSessions" /\ op.tag = t)

\* Requests that lead to a load of everything, sooner or later.
Raises(op) == Edits(op) \/ op.bump

TagOpOK(op) ==
  /\ op.kind \in {"tags", "tagSessions", "sessionTags", "create", "rename", "delete", "assign",
                  "unassign"}
  /\ op.by \in {"panel", "header", "dialog"}
  /\ LoadsHeader(op) => op.session = Open
  /\ op.kind = "tagSessions" \/ (Edits(op) /\ op.by = "panel") => op.tag \in TagIds
  /\ op.bump => op.kind \in {"tagSessions", "sessionTags"} /\ op.by # "dialog"

\* A request of some kind is among those behind the first d, or sent now.
Coming(d, ops, P(_)) == \/ \E j \in DOMAIN calls : j > d /\ P(calls[j].op)
                        \/ \E k \in 1..Len(ops) : P(ops[k])

ComingUnder(d, ops, t) == \/ \E j \in DOMAIN calls : j > d /\ LoadsUnder(calls[j].op, t)
                          \/ \E k \in 1..Len(ops) : LoadsUnder(ops[k], t)

\* Panel and header show what the server has, unless something on its way tells them.
Current(list, under, header, d, ops) ==
  \/ Coming(d, ops, Raises)
  \/ /\ list = Live \/ Coming(d, ops, LoadsTags)
     /\ header = TagsOf(Open) \/ Coming(d, ops, LoadsHeader)
     /\ \A t \in Named(list) \cap InitialExpanded :
          \/ under[t] = srvTagged[t]
          \/ ComingUnder(d, ops, t)

\* What was read has no change behind it only if it is what the server would answer.
TagsInv ==
  /\ \A i \in DOMAIN calls : TagOpOK(calls[i].op)
  /\ tagSessions = [t \in TagIds |-> tagSessions[t]]
  /\ \A i \in DOMAIN calls : ~Edits(calls[i].op) =>
       \/ calls[i].answer \in {Waiting, Failed, Answer(calls[i].op)}
       \/ \E j \in DOMAIN calls : j > i /\ Edits(calls[j].op)
  /\ missed \/ Current(tags, tagSessions, sessionTags, 0, <<>>)

\* The server's part of what is current, after a step that leaves the server alone.
LEMMA ServerStays ==
  ASSUME UNCHANGED server
  PROVE  /\ Live' = Live /\ TagsOf(Open)' = TagsOf(Open) /\ srvTagged' = srvTagged
         /\ \A op : Answer(op)' = Answer(op)
BY DEF server, Live, TagsOf, Exists, Answer

LEMMA TagsMove ==
  ASSUME QueueInv, TagsInv, NEW d, NEW ops, Moves(d, ops), UNCHANGED server,
         \A k \in 1..Len(ops) : TagOpOK(ops[k]),
         tagSessions' = [t \in TagIds |-> tagSessions'[t]],
         missed' \/ Current(tags', tagSessions', sessionTags', d, ops)
  PROVE  QueueInv' /\ TagsInv'
<1>1. QueueInv' /\ d \in {0, 1} /\ Len(calls) \in Nat
  BY MovesShape DEF Moves
<1>2. \A i \in DOMAIN calls' :
        \/ i + d \in DOMAIN calls /\ calls'[i] = calls[i + d]
        \/ calls'[i].answer = Waiting /\ \E k \in 1..Len(ops) : calls'[i].op = ops[k]
  BY MovesShape
<1>3. \A j \in DOMAIN calls : j > d => j - d \in DOMAIN calls' /\ calls'[j - d] = calls[j]
  BY MovesShape
<1>4. \A i \in DOMAIN calls' : TagOpOK(calls'[i].op)
  BY <1>2 DEF TagsInv
<1>5. ASSUME NEW i \in DOMAIN calls', ~Edits(calls'[i].op)
      PROVE  \/ calls'[i].answer \in {Waiting, Failed, Answer(calls[i].op)'}
             \/ \E j \in DOMAIN calls' : j > i /\ Edits(calls'[j].op)
  <2>1. CASE i + d \in DOMAIN calls /\ calls'[i] = calls[i + d]
    <3>1. CASE \E j \in DOMAIN calls : j > i + d /\ Edits(calls[j].op)
      <4>1. PICK j \in DOMAIN calls : j > i + d /\ Edits(calls[j].op)
        BY <3>1
      <4>2. j > d /\ j - d > i
        BY <1>1, <4>1, MovesShape
      <4> QED BY <1>3, <4>1, <4>2
    <3>2. CASE calls[i + d].answer \in {Waiting, Failed, Answer(calls[i + d].op)}
      <4>1. PICK o : o = calls[i + d].op
        OBVIOUS
      <4>2. Answer(o)' = Answer(o)
        BY ServerStays
      <4>3. calls'[i].op = o
        BY <2>1, <4>1
      <4>4. Answer(calls[i].op)' = Answer(o)'
        BY <4>3 DEF Answer, Live, TagsOf, Exists
      <4> QED BY <2>1, <3>2, <4>1, <4>2, <4>4
    <3> QED BY <1>5, <2>1, <3>1, <3>2 DEF TagsInv
  <2> QED BY <1>2, <2>1
<1>6. ASSUME NEW o, (\E j \in DOMAIN calls : j > d /\ calls[j].op = o) \/ \E k \in 1..Len(ops) : ops[k] = o
      PROVE  \E i \in DOMAIN calls' : i > 0 /\ calls'[i].op = o
  <2>1. CASE \E j \in DOMAIN calls : j > d /\ calls[j].op = o
    <3>1. PICK j \in DOMAIN calls : j > d /\ calls[j].op = o
      BY <2>1
    <3>2. j - d \in DOMAIN calls' /\ j - d > 0 /\ calls'[j - d].op = o
      BY <1>1, <1>3, <3>1, MovesShape
    <3> QED BY <3>2
  <2>2. CASE \E k \in 1..Len(ops) : ops[k] = o
    <3>1. PICK k \in 1..Len(ops) : ops[k] = o
      BY <2>2
    <3>2. PICK j \in DOMAIN calls' : calls'[j] = [op |-> ops[k], answer |-> Waiting]
      BY MovesShape
    <3>3. calls'[j].op = ops[k] /\ j > 0
      BY <3>2, MovesShape
    <3> QED BY <3>1, <3>3
  <2> QED BY <1>6, <2>1, <2>2
<1>7. ASSUME Current(tags', tagSessions', sessionTags', d, ops)
      PROVE  Current(tags, tagSessions, sessionTags, 0, <<>>)'
  <2>1. Coming(d, ops, Raises) => Coming(0, <<>>, Raises)'
    BY <1>6 DEF Coming
  <2>2. Coming(d, ops, LoadsTags) => Coming(0, <<>>, LoadsTags)'
    BY <1>6 DEF Coming
  <2>3. Coming(d, ops, LoadsHeader) => Coming(0, <<>>, LoadsHeader)'
    BY <1>6 DEF Coming
  <2>4. \A t : ComingUnder(d, ops, t) => ComingUnder(0, <<>>, t)'
    BY <1>6 DEF ComingUnder
  <2>5. Named(tags)' = Named(tags')
    BY DEF Named
  <2>6. CASE Coming(d, ops, Raises)
    BY <2>1, <2>6 DEF Current
  <2>7. CASE ~Coming(d, ops, Raises)
    <3>1. (tags = Live \/ Coming(0, <<>>, LoadsTags))'
      BY <1>7, <2>2, <2>7, ServerStays DEF Current
    <3>2. (sessionTags = TagsOf(Open) \/ Coming(0, <<>>, LoadsHeader))'
      BY <1>7, <2>3, <2>7, ServerStays DEF Current
    <3>3. ASSUME NEW t \in Named(tags') \cap InitialExpanded
          PROVE  \/ tagSessions'[t] = srvTagged'[t]
                 \/ ComingUnder(0, <<>>, t)'
      BY <1>7, <2>4, <2>7, ServerStays DEF Current
    <3> QED BY <2>5, <3>1, <3>2, <3>3 DEF Current
  <2> QED BY <2>6, <2>7
<1> QED BY <1>1, <1>4, <1>5, <1>7, MovesShape DEF TagsInv

LEMMA TagServed ==
  ASSUME Ordered, QueueInv, TagsInv, NEW i, NEW answer, Serves(i, answer),
         UNCHANGED <<missed, tags, tagSessions, sessionTags>>,
         Edits(calls[i].op) \/ (UNCHANGED server /\ answer \in {Failed, Answer(calls[i].op)})
  PROVE  QueueInv' /\ TagsInv'
<1>1. /\ DOMAIN calls' = DOMAIN calls /\ i \in DOMAIN calls /\ calls'[i].answer = answer
      /\ DOMAIN calls = 1..Len(calls) /\ Len(calls) \in Nat /\ QueueInv'
      /\ \A j \in DOMAIN calls : /\ calls'[j].op = calls[j].op
                                 /\ j # i => calls'[j] = calls[j]
                                 /\ j > i => calls[j].answer = Waiting
  BY ServesShape
<1>2. \A j \in DOMAIN calls' : TagOpOK(calls'[j].op)
  BY <1>1 DEF TagsInv
<1>3. tagSessions' = [t \in TagIds |-> tagSessions'[t]]
  BY DEF TagsInv
<1>4. CASE Edits(calls[i].op)
  <2>1. ASSUME NEW j \in DOMAIN calls'
        PROVE  calls'[j].answer = Waiting \/ ~(j > i)
    BY <1>1
  <2>2. ASSUME NEW j \in DOMAIN calls', ~Edits(calls'[j].op), ~(j > i)
        PROVE  \E k \in DOMAIN calls' : k > j /\ Edits(calls'[k].op)
    <3>1. j # i /\ i > j
      BY <1>1, <1>4, <2>2
    <3> QED BY <1>1, <1>4, <3>1
  <2>3. Coming(0, <<>>, Raises)'
    BY <1>1, <1>4 DEF Coming, Raises
  <2> QED BY <1>1, <1>2, <1>3, <2>1, <2>2, <2>3 DEF TagsInv, Current
<1>5. CASE UNCHANGED server /\ answer \in {Failed, Answer(calls[i].op)} /\ ~Edits(calls[i].op)
  <2>1. ASSUME NEW j \in DOMAIN calls', ~Edits(calls'[j].op)
        PROVE  \/ calls'[j].answer \in {Waiting, Failed, Answer(calls[j].op)'}
               \/ \E k \in DOMAIN calls' : k > j /\ Edits(calls'[k].op)
    <3>1. PICK o : o = calls[j].op
      OBVIOUS
    <3>2. Answer(o)' = Answer(o) /\ calls'[j].op = o
      BY <1>1, <1>5, <3>1, ServerStays
    <3>3. Answer(calls[j].op)' = Answer(o)'
      BY <3>2 DEF Answer, Live, TagsOf, Exists
    <3>4. CASE j = i
      BY <1>1, <1>5, <3>1, <3>2, <3>3, <3>4
    <3>5. CASE j # i
      <4>1. \/ calls[j].answer \in {Waiting, Failed, Answer(o)}
            \/ \E k \in DOMAIN calls : k > j /\ Edits(calls[k].op)
        BY <1>1, <2>1, <3>1, <3>2 DEF TagsInv
      <4> QED BY <1>1, <3>2, <3>3, <3>5, <4>1
    <3> QED BY <3>4, <3>5
  <2>2. missed' \/ Current(tags, tagSessions, sessionTags, 0, <<>>)'
    <3>1. Coming(0, <<>>, Raises) => Coming(0, <<>>, Raises)'
      BY <1>1 DEF Coming
    <3>2. Coming(0, <<>>, LoadsTags) => Coming(0, <<>>, LoadsTags)'
      BY <1>1 DEF Coming
    <3>3. Coming(0, <<>>, LoadsHeader) => Coming(0, <<>>, LoadsHeader)'
      BY <1>1 DEF Coming
    <3>4. \A t : ComingUnder(0, <<>>, t) => ComingUnder(0, <<>>, t)'
      BY <1>1 DEF ComingUnder
    <3>5. Named(tags)' = Named(tags)
      BY DEF Named
    <3> QED BY <1>5, <3>1, <3>2, <3>3, <3>4, <3>5, ServerStays DEF TagsInv, Current
  <2> QED BY <1>1, <1>2, <1>3, <2>1, <2>2 DEF TagsInv
<1> QED BY <1>4, <1>5

\* What is current stays so when requests are added, or when the first is answered
\* without having been the one that would tell.
LEMMA CurrentStays ==
  ASSUME QueueInv, Current(tags, tagSessions, sessionTags, 0, <<>>),
         NEW d \in {0, 1}, NEW ops, NEW list, NEW under, NEW header,
         d = 1 => ~Raises(calls[1].op),
         \/ list = Live \/ Coming(d, ops, LoadsTags)
         \/ list = tags /\ (d = 1 => ~LoadsTags(calls[1].op)),
         \/ header = TagsOf(Open) \/ Coming(d, ops, LoadsHeader)
         \/ header = sessionTags /\ (d = 1 => ~LoadsHeader(calls[1].op)),
         \A t \in Named(list) \cap InitialExpanded :
           \/ under[t] = srvTagged[t] \/ ComingUnder(d, ops, t)
           \/ /\ list = tags /\ under[t] = tagSessions[t]
              /\ d = 1 => ~LoadsUnder(calls[1].op, t)
  PROVE  Current(list, under, header, d, ops)
<1>1. \A j \in DOMAIN calls : j > 0 /\ (j # 1 => j > 1)
  BY QueueShape DEF QueueInv
<1>2. Coming(0, <<>>, Raises) => Coming(d, ops, Raises)
  BY <1>1 DEF Coming
<1>3. Coming(0, <<>>, LoadsTags) /\ (d = 1 => ~LoadsTags(calls[1].op)) => Coming(d, ops, LoadsTags)
  BY <1>1 DEF Coming
<1>4. Coming(0, <<>>, LoadsHeader) /\ (d = 1 => ~LoadsHeader(calls[1].op)) => Coming(d, ops, LoadsHeader)
  BY <1>1 DEF Coming
<1>5. \A t : ComingUnder(0, <<>>, t) /\ (d = 1 => ~LoadsUnder(calls[1].op, t)) => ComingUnder(d, ops, t)
  BY <1>1 DEF ComingUnder
<1>6. CASE Coming(0, <<>>, Raises)
  BY <1>2, <1>6 DEF Current
<1>7. CASE ~Coming(0, <<>>, Raises)
  <2>1. list = Live \/ Coming(d, ops, LoadsTags)
    BY <1>3, <1>7 DEF Current
  <2>2. header = TagsOf(Open) \/ Coming(d, ops, LoadsHeader)
    BY <1>4, <1>7 DEF Current
  <2>3. ASSUME NEW t \in Named(list) \cap InitialExpanded
        PROVE  under[t] = srvTagged[t] \/ ComingUnder(d, ops, t)
    BY <1>5, <1>7 DEF Current
  <2> QED BY <2>1, <2>2, <2>3 DEF Current
<1> QED BY <1>6, <1>7

-----------------------------------------------------------------------------
(* The requests of the tags                                                 *)

LEMMA BumpedShape ==
  /\ bumped \in Seq({Tags("panel"), SessionTags("header", Open)}) /\ Len(bumped) = 2
  /\ bumped[1] = Tags("panel") /\ bumped[2] = SessionTags("header", Open)
  /\ TagOpOK(Tags("panel")) /\ LoadsTags(Tags("panel")) /\ \A t : LoadsUnder(Tags("panel"), t)
  /\ TagOpOK(SessionTags("header", Open)) /\ LoadsHeader(SessionTags("header", Open))
<1>1. /\ bumped \in Seq({Tags("panel"), SessionTags("header", Open)}) /\ Len(bumped) = 2
      /\ bumped[1] = Tags("panel") /\ bumped[2] = SessionTags("header", Open)
  BY DEF bumped
<1>2. TagOpOK(Tags("panel")) /\ LoadsTags(Tags("panel"))
  BY DEF TagOpOK, Edits, LoadsTags, LoadsHeader, Tags, TagOp
<1>3. TagOpOK(SessionTags("header", Open)) /\ LoadsHeader(SessionTags("header", Open))
  BY DEF TagOpOK, Edits, LoadsHeader, SessionTags, TagOp
<1>4. \A t : LoadsUnder(Tags("panel"), t)
  BY <1>2 DEF LoadsUnder
<1> QED BY <1>1, <1>2, <1>3, <1>4

\* With the two loads of bump(), whatever is shown will be what the server has.
LEMMA BumpedTells ==
  ASSUME NEW d, NEW ops, NEW list, NEW under, NEW header,
         \E k \in 1..Len(ops) : ops[k] = Tags("panel"),
         \E k \in 1..Len(ops) : ops[k] = SessionTags("header", Open)
  PROVE  Current(list, under, header, d, ops)
<1>1. Coming(d, ops, LoadsTags) /\ Coming(d, ops, LoadsHeader)
  BY BumpedShape DEF Coming
<1>2. \A t : ComingUnder(d, ops, t)
  BY BumpedShape DEF ComingUnder
<1> QED BY <1>1, <1>2 DEF Current

LEMMA UnderOps ==
  ASSUME NEW S \in SUBSET TagIds
  PROVE  LET ops == SetToSeq({TagSessions(t) : t \in S})
         IN  /\ ops \in Seq({TagSessions(t) : t \in S})
             /\ \A k \in 1..Len(ops) : TagOpOK(ops[k])
             /\ \A t \in S : \E k \in 1..Len(ops) : LoadsUnder(ops[k], t)
<1> DEFINE U == {TagSessions(t) : t \in S}
           ops == SetToSeq(U)
           f == [t \in S |-> TagSessions(t)]
<1>1. IsFiniteSet(S)
  BY TagAssumption, FS_Subset
<1>2. f \in Surjection(S, U)
  BY DEF Surjection
<1>3. IsFiniteSet(U)
  BY <1>1, <1>2, FS_Surjection
<1>4. \A t \in S : TagOpOK(TagSessions(t)) /\ LoadsUnder(TagSessions(t), t)
  BY DEF TagOpOK, Edits, TagSessions, TagOp, LoadsHeader, LoadsUnder
<1>5. \A o \in U : TagOpOK(o)
  BY <1>4
<1>6. \A t \in S : TagSessions(t) \in U
  OBVIOUS
<1> HIDE DEF U, f
<1>7. ops \in Seq(U) /\ \A x \in U : \E k \in 1..Len(ops) : ops[k] = x
  BY <1>3, SetToSeqType
<1> HIDE DEF ops
<1>8. \A k \in 1..Len(ops) : ops[k] \in U
  BY <1>7, ElementOfSeq
<1>9. \A t \in S : \E k \in 1..Len(ops) : LoadsUnder(ops[k], t)
  BY <1>4, <1>6, <1>7
<1>10. \A k \in 1..Len(ops) : TagOpOK(ops[k])
  BY <1>5, <1>8
<1> QED BY <1>7, <1>9, <1>10 DEF ops, U

-----------------------------------------------------------------------------
(* The answers about tags                                                   *)

\* The answer to the first request is handled, and `ops` are sent.
LEMMA TagsAnswered ==
  ASSUME Ordered, QueueInv, TagsInv, NEW i \in ToAnswer, NEW T, NEW ops \in Seq(T),
         Answered(i, ops), UNCHANGED server,
         \A k \in 1..Len(ops) : TagOpOK(ops[k]),
         tagSessions' = [t \in TagIds |-> tagSessions'[t]],
         missed' \/ Current(tags', tagSessions', sessionTags', 1, ops)
  PROVE  QueueInv' /\ TagsInv'
BY AnsweredMoves, TagsMove DEF QueueInv

\* What the first request says of itself.
LEMMA FirstIsRead ==
  ASSUME Ordered, QueueInv, TagsInv, NEW i \in ToAnswer, ok(i), ~Edits(calls[i].op)
  PROVE  calls[i].answer = Answer(calls[i].op) \/ \A ops : Coming(1, ops, Raises)
<1>1. i = 1 /\ i \in DOMAIN calls /\ calls[i].answer # Waiting
  BY DEF ToAnswer
<1>2. \/ calls[i].answer \in {Waiting, Failed, Answer(calls[i].op)}
      \/ \E j \in DOMAIN calls : j > i /\ Edits(calls[j].op)
  BY <1>1 DEF TagsInv
<1> QED BY <1>1, <1>2 DEF ok, Coming, Raises

LEMMA DialogAnswerKeeps ==
  ASSUME Ordered, QueueInv, TagsInv, NEW i \in ToAnswer, DialogAnswer(i), UNCHANGED server,
         calls[i].op.kind \in {"tags", "sessionTags"}, calls[i].op.by = "dialog"
  PROVE  QueueInv' /\ TagsInv'
<1>1. /\ <<>> \in Seq({None}) /\ Len(<<>>) = 0 /\ Answered(i, <<>>) /\ missed' = missed
      /\ UNCHANGED <<tags, tagSessions, sessionTags>>
  BY DEF DialogAnswer, panel
<1>2. i = 1 /\ TagOpOK(calls[i].op)
  BY DEF ToAnswer, TagsInv
<1>3. /\ ~Raises(calls[i].op) /\ ~LoadsTags(calls[i].op) /\ ~LoadsHeader(calls[i].op)
      /\ \A t : ~LoadsUnder(calls[i].op, t)
  BY <1>2 DEF TagOpOK, Raises, Edits, LoadsTags, LoadsHeader, LoadsUnder
<1>4. missed' \/ Current(tags', tagSessions', sessionTags', 1, <<>>)
  BY <1>1, <1>2, <1>3, CurrentStays DEF TagsInv
<1>5. tagSessions' = [t \in TagIds |-> tagSessions'[t]]
  BY <1>1 DEF TagsInv
<1>6. \A k \in 1..Len(<<>>) : TagOpOK(<<>>[k])
  BY <1>1
<1> QED BY <1>1, <1>4, <1>5, <1>6, TagsAnswered

\* The list, and what is loaded of it.
LEMMA TagsAnswerKeeps ==
  ASSUME Ordered, QueueInv, TagsInv, NEW i \in ToAnswer, TagsAnswer(i), UNCHANGED server,
         calls[i].op.kind = "tags", calls[i].op.by # "dialog"
  PROVE  QueueInv' /\ TagsInv'
<1> DEFINE list == IF ok(i) THEN calls[i].answer ELSE NoTags
           reload == (Named(list) \cap InitialExpanded) \cup Filtered(list)
           ops == SetToSeq({TagSessions(t) : t \in reload})
<1>1. /\ tags' = list /\ Answered(i, ops) /\ missed' = (missed \/ ~ok(i))
      /\ UNCHANGED <<tagSessions, sessionTags>>
  BY DEF TagsAnswer
<1>2. i = 1 /\ TagOpOK(calls[i].op)
  BY DEF ToAnswer, TagsInv
<1>3. /\ ~Raises(calls[i].op) /\ ~LoadsHeader(calls[i].op) /\ ~Edits(calls[i].op)
  BY <1>2 DEF TagOpOK, Raises, Edits, LoadsHeader
<1>4. reload \in SUBSET TagIds /\ Named(list) \cap InitialExpanded \subseteq reload
  BY DEF Named, Filtered
<1> HIDE DEF reload
<1>5. /\ ops \in Seq({TagSessions(t) : t \in reload}) /\ \A k \in 1..Len(ops) : TagOpOK(ops[k])
      /\ \A t \in reload : \E k \in 1..Len(ops) : LoadsUnder(ops[k], t)
  BY <1>4, UnderOps
<1> HIDE DEF ops
<1>6. \A t \in Named(list) \cap InitialExpanded : ComingUnder(1, ops, t)
  BY <1>4, <1>5 DEF ComingUnder
<1>7. ok(i) => list = Live \/ Coming(1, ops, Raises)
  <2>1. Answer(calls[i].op) = Live
    BY DEF Answer
  <2> QED BY <1>3, <2>1, FirstIsRead
<1> HIDE DEF list
<1>8. missed' \/ Current(list, tagSessions, sessionTags, 1, ops)
  <2>1. CASE Coming(1, ops, Raises)
    BY <2>1 DEF Current
  <2>2. CASE ~missed /\ ok(i) /\ list = Live
    <3>1. Current(tags, tagSessions, sessionTags, 0, <<>>)
      BY <2>2 DEF TagsInv
    <3> QED BY <1>2, <1>3, <1>6, <2>2, <3>1, CurrentStays
  <2> QED BY <1>1, <1>7, <2>1, <2>2
<1>9. tagSessions' = [t \in TagIds |-> tagSessions'[t]]
  BY <1>1 DEF TagsInv
<1> QED BY <1>1, <1>5, <1>8, <1>9, TagsAnswered

LEMMA TagSessionsAnswerKeeps ==
  ASSUME Ordered, QueueInv, TagsInv, NEW i \in ToAnswer, TagSessionsAnswer(i), UNCHANGED server,
         calls[i].op.kind = "tagSessions"
  PROVE  QueueInv' /\ TagsInv'
<1> DEFINE s == calls[i].op.tag
           ops == Follows(i)
<1>1. /\ tagSessions' = [tagSessions EXCEPT ![s] = IF ok(i) THEN calls[i].answer ELSE {}]
      /\ Answered(i, ops) /\ missed' = (missed \/ ~ok(i)) /\ UNCHANGED <<tags, sessionTags>>
  BY DEF TagSessionsAnswer
<1>2. i = 1 /\ TagOpOK(calls[i].op)
  BY DEF ToAnswer, TagsInv
<1>3. /\ ~LoadsHeader(calls[i].op) /\ ~LoadsTags(calls[i].op) /\ ~Edits(calls[i].op) /\ s \in TagIds
  BY <1>2 DEF TagOpOK, Edits, LoadsHeader, LoadsTags
<1>4. tagSessions = [t \in TagIds |-> tagSessions[t]]
  BY DEF TagsInv
<1>5. tagSessions' = [t \in TagIds |-> tagSessions'[t]]
  BY <1>1, <1>4
<1>6. \A t \in TagIds : t # s => tagSessions'[t] = tagSessions[t] /\ ~LoadsUnder(calls[i].op, t)
  BY <1>1, <1>3, <1>4 DEF LoadsUnder
<1>7. ok(i) => tagSessions'[s] = calls[i].answer
  BY <1>1, <1>3, <1>4
<1>8. ok(i) => tagSessions'[s] = srvTagged[s] \/ Coming(1, ops, Raises)
  <2>1. Answer(calls[i].op) = srvTagged[s]
    BY DEF Answer
  <2> QED BY <1>3, <1>7, <2>1, FirstIsRead
<1>9. CASE calls[i].op.bump
  <2>1. ops = bumped
    BY <1>9 DEF Follows
  <2>2. \A list, under, header : Current(list, under, header, 1, bumped)
    BY BumpedShape, BumpedTells
  <2>3. \A k \in 1..Len(bumped) : TagOpOK(bumped[k])
    BY BumpedShape
  <2> QED BY <1>1, <1>5, <2>1, <2>2, <2>3, BumpedShape, TagsAnswered
<1>10. CASE ~calls[i].op.bump
  <2>1. ops = <<>> /\ <<>> \in Seq({None}) /\ Len(<<>>) = 0
    BY <1>10 DEF Follows
  <2>2. ~Raises(calls[i].op)
    BY <1>3, <1>10 DEF Raises
  <2> HIDE DEF s, ops
  <2>3. missed' \/ Current(tags', tagSessions', sessionTags', 1, ops)
    <3>1. CASE Coming(1, ops, Raises)
      BY <3>1 DEF Current
    <3>2. CASE ~missed /\ ok(i) /\ tagSessions'[s] = srvTagged[s]
      <4>1. Current(tags, tagSessions, sessionTags, 0, <<>>)
        BY <3>2 DEF TagsInv
      <4>2. ASSUME NEW t \in Named(tags) \cap InitialExpanded
            PROVE  \/ tagSessions'[t] = srvTagged[t]
                   \/ tagSessions'[t] = tagSessions[t] /\ ~LoadsUnder(calls[1].op, t)
        BY <1>2, <1>6, <3>2 DEF Named
      <4>3. PICK under : under = tagSessions'
        OBVIOUS
      <4>4. Current(tags, under, sessionTags, 1, ops)
        BY <1>2, <1>3, <2>2, <4>1, <4>2, <4>3, CurrentStays
      <4> QED BY <1>1, <4>3, <4>4
    <3> QED BY <1>1, <1>8, <3>1, <3>2
  <2>4. \A k \in 1..Len(ops) : TagOpOK(ops[k])
    BY <2>1
  <2>5. Answered(i, ops) /\ ops \in Seq({None})
    BY <1>1, <2>1
  <2> QED BY <1>5, <2>3, <2>4, <2>5, TagsAnswered
<1> QED BY <1>9, <1>10

LEMMA SessionTagsAnswerKeeps ==
  ASSUME Ordered, QueueInv, TagsInv, NEW i \in ToAnswer, SessionTagsAnswer(i), UNCHANGED server,
         calls[i].op.kind = "sessionTags", calls[i].op.by # "dialog"
  PROVE  QueueInv' /\ TagsInv'
<1> DEFINE ops == Follows(i)
<1>1. /\ sessionTags' = IF ok(i) THEN calls[i].answer ELSE sessionTags
      /\ Answered(i, ops) /\ missed' = (missed \/ ~ok(i)) /\ UNCHANGED <<tags, tagSessions>>
  BY DEF SessionTagsAnswer, panel
<1>2. i = 1 /\ TagOpOK(calls[i].op)
  BY DEF ToAnswer, TagsInv
<1>3. /\ calls[i].op.session = Open /\ ~LoadsTags(calls[i].op) /\ ~Edits(calls[i].op)
      /\ \A t : ~LoadsUnder(calls[i].op, t)
  BY <1>2 DEF TagOpOK, Edits, LoadsHeader, LoadsTags, LoadsUnder
<1>4. tagSessions' = [t \in TagIds |-> tagSessions'[t]]
  BY <1>1 DEF TagsInv
<1>5. ok(i) => sessionTags' = TagsOf(Open) \/ Coming(1, ops, Raises)
  <2>1. Answer(calls[i].op) = TagsOf(Open)
    BY <1>3 DEF Answer
  <2> QED BY <1>1, <1>3, <2>1, FirstIsRead
<1>6. CASE calls[i].op.bump
  <2>1. ops = bumped
    BY <1>6 DEF Follows
  <2>2. \A list, under, header : Current(list, under, header, 1, bumped)
    BY BumpedShape, BumpedTells
  <2>3. \A k \in 1..Len(bumped) : TagOpOK(bumped[k])
    BY BumpedShape
  <2> QED BY <1>1, <1>4, <2>1, <2>2, <2>3, BumpedShape, TagsAnswered
<1>7. CASE ~calls[i].op.bump
  <2>1. ops = <<>> /\ <<>> \in Seq({None}) /\ Len(<<>>) = 0
    BY <1>7 DEF Follows
  <2>2. ~Raises(calls[i].op)
    BY <1>3, <1>7 DEF Raises
  <2> HIDE DEF ops
  <2>3. missed' \/ Current(tags', tagSessions', sessionTags', 1, ops)
    <3>1. CASE Coming(1, ops, Raises)
      BY <3>1 DEF Current
    <3>2. CASE ~missed /\ ok(i) /\ sessionTags' = TagsOf(Open)
      <4>1. Current(tags, tagSessions, sessionTags, 0, <<>>)
        BY <3>2 DEF TagsInv
      <4>2. Current(tags, tagSessions, TagsOf(Open), 1, ops)
        BY <1>2, <1>3, <2>2, <4>1, CurrentStays
      <4> QED BY <1>1, <3>2, <4>2
    <3> QED BY <1>1, <1>5, <3>1, <3>2
  <2>4. \A k \in 1..Len(ops) : TagOpOK(ops[k])
    BY <2>1
  <2>5. Answered(i, ops) /\ ops \in Seq({None})
    BY <1>1, <2>1
  <2> QED BY <1>4, <2>3, <2>4, <2>5, TagsAnswered
<1> QED BY <1>6, <1>7

\* A change is answered: what follows tells the panel and the header, or they miss it.
LEMMA ChangeAnswerKeeps ==
  ASSUME Ordered, QueueInv, TagsInv, NEW i \in ToAnswer, ChangeAnswer(i), UNCHANGED server,
         Edits(calls[i].op)
  PROVE  QueueInv' /\ TagsInv'
<1> DEFINE op == calls[i].op
<1>1. /\ missed' = (missed \/ op.by = "dialog" \/ (op.by = "header" /\ ~ok(i)))
      /\ UNCHANGED <<tags, tagSessions, sessionTags>>
  BY DEF ChangeAnswer
<1>2. i = 1 /\ TagOpOK(op)
  BY DEF ToAnswer, TagsInv
<1>3. tagSessions' = [t \in TagIds |-> tagSessions'[t]]
  BY <1>1 DEF TagsInv
<1>4. ASSUME NEW o, TagOpOK(o), Answered(i, <<o>>), missed' \/ Raises(o)
      PROVE  QueueInv' /\ TagsInv'
  <2> DEFINE ops == <<o>>
  <2>1. ops \in Seq({o}) /\ Len(ops) = 1 /\ ops[1] = o
    OBVIOUS
  <2>2. Answered(i, ops)
    BY <1>4
  <2> HIDE DEF ops
  <2>3. \A k \in 1..Len(ops) : TagOpOK(ops[k])
    BY <1>4, <2>1
  <2>4. missed' \/ Current(tags', tagSessions', sessionTags', 1, ops)
    BY <1>4, <2>1 DEF Current, Coming
  <2> QED BY <1>3, <2>1, <2>2, <2>3, <2>4, TagsAnswered
<1>5. ASSUME Answered(i, <<>>), missed' PROVE QueueInv' /\ TagsInv'
  <2>1. <<>> \in Seq({None}) /\ \A k \in 1..Len(<<>>) : TagOpOK(<<>>[k])
    OBVIOUS
  <2> QED BY <1>3, <1>5, <2>1, TagsAnswered
<1>6. CASE op.by = "panel"
  <2>1. Answered(i, AfterPanel(op))
    BY <1>6 DEF ChangeAnswer
  <2>2. CASE op.kind \in {"assign", "unassign"}
    <3>1. Answered(i, <<Bumping(TagSessions(op.tag))>>)
      BY <2>1, <2>2 DEF AfterPanel
    <3>2. op.tag \in TagIds
      BY <1>2, <1>6 DEF TagOpOK
    <3>3. TagOpOK(Bumping(TagSessions(op.tag))) /\ Raises(Bumping(TagSessions(op.tag)))
      BY <3>2 DEF TagOpOK, Edits, LoadsHeader, Bumping, TagSessions, TagOp, Raises
    <3> QED BY <1>4, <3>1, <3>3
  <2>3. CASE op.kind \notin {"assign", "unassign"}
    <3> DEFINE ops == <<Tags("panel")>> \o bumped
               P == Tags("panel")
               H == SessionTags("header", Open)
    <3>1. Answered(i, ops)
      BY <2>1, <2>3 DEF AfterPanel
    <3>2. <<P>> \in Seq({P, H}) /\ Len(<<P>>) = 1 /\ <<P>>[1] = P
      OBVIOUS
    <3>3. /\ bumped \in Seq({P, H}) /\ Len(bumped) = 2 /\ bumped[1] = P /\ bumped[2] = H
      BY BumpedShape
    <3> DEFINE one == <<P>>
    <3> HIDE DEF P, H, one
    <3>7. /\ ops \in Seq({P, H}) /\ Len(ops) = 1 + 2
          /\ \A k \in 1..(1 + 2) : ops[k] = IF k <= 1 THEN <<P>>[k] ELSE bumped[k - 1]
      <4>1. one \in Seq({P, H}) /\ Len(one) = 1 /\ ops = one \o bumped
        BY <3>2 DEF one, P
      <4>2. /\ one \o bumped \in Seq({P, H}) /\ Len(one \o bumped) = 1 + 2
            /\ \A k \in 1..(1 + 2) : (one \o bumped)[k] = IF k <= 1 THEN one[k] ELSE bumped[k - 1]
        BY <3>3, <4>1, ConcatProperties
      <4> QED BY <4>1, <4>2 DEF one
    <3>8. ops[1] = P /\ ops[3] = H /\ 1 \in 1..Len(ops) /\ 3 \in 1..Len(ops)
      BY <3>2, <3>3, <3>7
    <3> HIDE DEF ops
    <3>4. \A k \in 1..Len(ops) : ops[k] \in {P, H}
      BY <3>7, ElementOfSeq
    <3>5. \A k \in 1..Len(ops) : TagOpOK(ops[k])
      BY <3>4, BumpedShape DEF P, H
    <3>6. Current(tags', tagSessions', sessionTags', 1, ops)
      BY <3>8, BumpedTells DEF P, H
    <3> QED BY <1>3, <3>1, <3>5, <3>6, <3>7, TagsAnswered
  <2> QED BY <2>2, <2>3
<1>7. CASE op.by = "header"
  <2>1. Answered(i, AfterHeader(op, ok(i)))
    BY <1>7 DEF ChangeAnswer
  <2>2. CASE ok(i)
    <3>1. \/ Answered(i, <<TagOp("assign", "header", op.tag, Open)>>)
          \/ Answered(i, <<Bumping(SessionTags("header", Open))>>)
      BY <2>1, <2>2 DEF AfterHeader
    <3>2. /\ TagOpOK(TagOp("assign", "header", op.tag, Open))
          /\ Raises(TagOp("assign", "header", op.tag, Open))
      BY DEF TagOpOK, Edits, LoadsHeader, TagOp, Raises
    <3>3. TagOpOK(Bumping(SessionTags("header", Open))) /\ Raises(Bumping(SessionTags("header", Open)))
      BY DEF TagOpOK, Edits, LoadsHeader, Bumping, SessionTags, TagOp, Raises
    <3> QED BY <1>4, <3>1, <3>2, <3>3
  <2>3. CASE ~ok(i)
    <3>1. missed' /\ (Answered(i, <<SessionTags("header", Open)>>) \/ Answered(i, <<>>))
      BY <1>1, <1>7, <2>1, <2>3 DEF AfterHeader
    <3> QED BY <1>4, <1>5, <3>1, BumpedShape
  <2> QED BY <2>2, <2>3
<1>8. CASE op.by = "dialog"
  <2>1. missed' /\ Answered(i, IF dialog = None THEN <<>> ELSE AfterDialog(op, ok(i)))
    BY <1>1, <1>8 DEF ChangeAnswer
  <2>2. \/ Answered(i, <<>>) \/ Answered(i, <<TagOp("assign", "dialog", op.tag, dialog)>>)
        \/ Answered(i, <<Tags("dialog"), SessionTags("dialog", dialog)>>)
    BY <2>1 DEF AfterDialog
  <2>3. TagOpOK(TagOp("assign", "dialog", op.tag, dialog))
    BY DEF TagOpOK, Edits, LoadsHeader, TagOp
  <2>4. CASE Answered(i, <<Tags("dialog"), SessionTags("dialog", dialog)>>)
    <3> DEFINE P == Tags("dialog")
               H == SessionTags("dialog", dialog)
               ops == <<P, H>>
    <3>1. TagOpOK(P) /\ TagOpOK(H)
      BY DEF TagOpOK, Edits, LoadsHeader, Tags, SessionTags, TagOp
    <3> HIDE DEF P, H
    <3>2. ops \in Seq({P, H}) /\ \A k \in 1..Len(ops) : ops[k] \in {P, H}
      BY ElementOfSeq
    <3>3. Answered(i, ops)
      BY <2>4 DEF P, H
    <3> HIDE DEF ops
    <3>4. \A k \in 1..Len(ops) : TagOpOK(ops[k])
      BY <3>1, <3>2
    <3> QED BY <1>3, <2>1, <3>2, <3>3, <3>4, TagsAnswered
  <2> QED BY <1>4, <1>5, <2>1, <2>2, <2>3, <2>4
<1> QED BY <1>2, <1>6, <1>7, <1>8 DEF TagOpOK

\* The user asks for something: what is shown stays, or is changed by a request.
LEMMA TagsAsked ==
  ASSUME QueueInv, TagsInv, NEW ops, Moves(0, ops), UNCHANGED <<missed, server, tags, tagSessions>>,
         \A k \in 1..Len(ops) : TagOpOK(ops[k]),
         UNCHANGED sessionTags \/ \E k \in 1..Len(ops) : Raises(ops[k])
  PROVE  QueueInv' /\ TagsInv'
<1>1. missed' \/ Current(tags', tagSessions', sessionTags', 0, ops)
  <2>1. CASE \E k \in 1..Len(ops) : Raises(ops[k])
    BY <2>1 DEF Current, Coming
  <2>2. CASE UNCHANGED sessionTags /\ ~missed
    <3>1. Current(tags, tagSessions, sessionTags, 0, <<>>)
      BY <2>2 DEF TagsInv
    <3>2. 0 \in {0, 1} /\ ~(0 = 1)
      OBVIOUS
    <3>3. PICK d \in {0, 1} : d = 0
      BY <3>2
    <3>4. d # 1 /\ d \in {0, 1}
      BY <3>3
    <3>5. \A t \in Named(tags) \cap InitialExpanded :
            \/ tagSessions[t] = srvTagged[t] \/ ComingUnder(d, ops, t)
            \/ /\ tags = tags /\ tagSessions[t] = tagSessions[t]
               /\ d = 1 => ~LoadsUnder(calls[1].op, t)
      BY <3>4
    <3>6. Current(tags, tagSessions, sessionTags, d, ops)
      BY <3>1, <3>4, <3>5, CurrentStays
    <3> QED BY <2>2, <3>3, <3>6
  <2> QED BY <2>1, <2>2
<1>2. tagSessions' = [t \in TagIds |-> tagSessions'[t]]
  BY DEF TagsInv
<1> QED BY <1>1, <1>2, TagsMove

\* One request that is sent so.
LEMMA TagAsked ==
  ASSUME QueueInv, TagsInv, NEW op, Send(op), TagOpOK(op),
         UNCHANGED <<missed, server, tags, tagSessions>>,
         UNCHANGED sessionTags \/ Raises(op)
  PROVE  QueueInv' /\ TagsInv'
<1> DEFINE ops == <<op>>
<1>1. Moves(0, ops)
  BY SendMoves DEF QueueInv
<1>2. Len(ops) = 1 /\ ops[1] = op
  OBVIOUS
<1> HIDE DEF ops
<1>3. \A k \in 1..Len(ops) : TagOpOK(ops[k])
  BY <1>2
<1>4. Raises(op) => \E k \in 1..Len(ops) : Raises(ops[k])
  BY <1>2
<1> QED BY <1>1, <1>3, <1>4, TagsAsked

\* Nothing that the panel or the header shows is touched.
LEMMA TagQuiet ==
  ASSUME QueueInv, TagsInv, UNCHANGED <<calls, missed, server, tags, tagSessions, sessionTags>>
  PROVE  QueueInv' /\ TagsInv'
<1> DEFINE ops == <<>>
<1>1. Moves(0, ops)
  BY SendMoves DEF QueueInv
<1>2. \A k \in 1..Len(ops) : TagOpOK(ops[k])
  OBVIOUS
<1> HIDE DEF ops
<1> QED BY <1>1, <1>2, TagsAsked

\* What is under some tags is loaded.
LEMMA UnderAsked ==
  ASSUME QueueInv, TagsInv, NEW S \in SUBSET TagIds,
         calls' = calls \o Sent(SetToSeq({TagSessions(t) : t \in S})),
         UNCHANGED <<missed, server, tags, tagSessions, sessionTags>>
  PROVE  QueueInv' /\ TagsInv'
<1> DEFINE U == {TagSessions(t) : t \in S}
           ops == SetToSeq(U)
<1>1. ops \in Seq(U) /\ \A k \in 1..Len(ops) : TagOpOK(ops[k])
  BY UnderOps
<1> HIDE DEF U
<1>2. calls' = calls \o Sent(ops)
  BY DEF U
<1> HIDE DEF ops
<1>3. Moves(0, ops)
  BY <1>1, <1>2, Appended DEF QueueInv
<1> QED BY <1>1, <1>3, TagsAsked

\* What the user can ask for.
LEMMA ChangesOK ==
  /\ \A t, s, n : t \in TagIds => TagOpOK([TagOp("create", "panel", t, s) EXCEPT !.name = n])
  /\ \A t, s, n : TagOpOK([TagOp("create", "header", t, s) EXCEPT !.name = n])
  /\ \A t, s, n : Raises([TagOp("create", "header", t, s) EXCEPT !.name = n])
  /\ \A t, s, n : TagOpOK([TagOp("create", "dialog", t, s) EXCEPT !.name = n])
  /\ \A t, n : t \in TagIds => TagOpOK([TagOp("rename", "panel", t, None) EXCEPT !.name = n])
  /\ \A t, n : TagOpOK([TagOp("unassign", "header", t, Open) EXCEPT !.name = n])
  /\ \A t, n : Raises([TagOp("unassign", "header", t, Open) EXCEPT !.name = n])
  /\ \A t : t \in TagIds => TagOpOK(TagOp("delete", "panel", t, None))
  /\ \A t, s : t \in TagIds => TagOpOK(TagOp("assign", "panel", t, s))
  /\ \A t, s : t \in TagIds => TagOpOK(TagOp("unassign", "panel", t, s))
  /\ \A t, s : TagOpOK(TagOp("assign", "dialog", t, s)) /\ TagOpOK(TagOp("unassign", "dialog", t, s))
  /\ \A t : TagOpOK(TagOp("assign", "header", t, Open)) /\ TagOpOK(TagOp("unassign", "header", t, Open))
  /\ \A t : Raises(TagOp("assign", "header", t, Open)) /\ Raises(TagOp("unassign", "header", t, Open))
  /\ \A t : t \in TagIds => TagOpOK(TagSessions(t))
  /\ \A s : TagOpOK(Tags("dialog")) /\ TagOpOK(SessionTags("dialog", s))
BY DEF TagOpOK, Edits, LoadsHeader, TagOp, Raises, TagSessions, Tags, SessionTags

LEMMA TagKeeps ==
  ASSUME Ordered, QueueInv, TagsInv, TagNext
  PROVE  QueueInv' /\ TagsInv'
<1>0. Queue(calls)
  BY DEF QueueInv
<1>1. CASE ServeTag
  <2>1. PICK i \in ToServe :
          /\ Serve(i, Answer(calls[i].op)) /\ Apply(calls[i].op)
          /\ UNCHANGED <<missed, tags, tagSessions, sessionTags>>
    BY <1>1 DEF ServeTag, panel
  <2>2. PICK answer : Serves(i, answer) /\ answer \in {Failed, Answer(calls[i].op)}
    BY <1>0, <2>1, Served
  <2>3. i \in DOMAIN calls /\ TagOpOK(calls[i].op)
    BY DEF ToServe, TagsInv
  <2>4. Edits(calls[i].op) \/ UNCHANGED server
    BY <2>1, <2>3 DEF Apply, Edits, TagOpOK, server
  <2> QED BY <2>1, <2>2, <2>4, TagServed
<1>2. CASE LoseRequest /\ UNCHANGED <<acts, missed, tagVars>>
  <2>1. PICK i \in ToServe : Serves(i, Failed)
    BY <1>0, <1>2, Lost
  <2>2. UNCHANGED <<missed, tags, tagSessions, sessionTags>> /\ UNCHANGED server
    BY <1>2 DEF tagVars, server
  <2> QED BY <2>1, <2>2, TagServed
<1>3. CASE TagAnswer
  <2>1. PICK i \in ToAnswer :
          LET op == calls[i].op IN
          /\ CASE op.kind = "tags" /\ op.by # "dialog"        -> TagsAnswer(i)
               [] op.kind = "sessionTags" /\ op.by # "dialog" -> SessionTagsAnswer(i)
               [] op.kind = "tagSessions"                     -> TagSessionsAnswer(i)
               [] op.kind \in {"tags", "sessionTags"} /\ op.by = "dialog" -> DialogAnswer(i)
               [] OTHER                                       -> ChangeAnswer(i)
          /\ UNCHANGED server
    BY <1>3 DEF TagAnswer
  <2>2. CASE calls[i].op.kind \in {"tags", "sessionTags"} /\ calls[i].op.by = "dialog"
    BY <2>1, <2>2, DialogAnswerKeeps
  <2>3. CASE calls[i].op.kind = "tags" /\ calls[i].op.by # "dialog"
    BY <2>1, <2>3, TagsAnswerKeeps
  <2>4. CASE calls[i].op.kind = "tagSessions"
    BY <2>1, <2>4, TagSessionsAnswerKeeps
  <2>5. CASE calls[i].op.kind = "sessionTags" /\ calls[i].op.by # "dialog"
    BY <2>1, <2>5, SessionTagsAnswerKeeps
  <2>6. CASE calls[i].op.kind \notin {"tags", "tagSessions", "sessionTags"}
    BY <2>1, <2>6, ChangeAnswerKeeps DEF Edits
  <2> QED BY <2>2, <2>3, <2>4, <2>5, <2>6
<1>4. CASE PanelAct
  <2>1. UNCHANGED <<missed, server, tags, tagSessions, sessionTags>>
    BY <1>4 DEF PanelAct, tagVars, server
  <2>2. \E op : Send(op) /\ TagOpOK(op)
    <3>1. CASE CreateTag("panel", None)
      <4>1. PICK t, n : t \in TagIds /\ Send([TagOp("create", "panel", t, None) EXCEPT !.name = n])
        BY <3>1 DEF CreateTag, Fresh
      <4>2. TagOpOK([TagOp("create", "panel", t, None) EXCEPT !.name = n])
        BY <4>1, ChangesOK
      <4> QED BY <4>1, <4>2
    <3>2. CASE RenameTag
      <4>1. PICK t, n : t \in TagIds /\ Send([TagOp("rename", "panel", t, None) EXCEPT !.name = n])
        BY <3>2 DEF RenameTag, Named
      <4>2. TagOpOK([TagOp("rename", "panel", t, None) EXCEPT !.name = n])
        BY <4>1, ChangesOK
      <4> QED BY <4>1, <4>2
    <3>3. CASE DeleteTag
      <4>1. PICK t : t \in TagIds /\ Send(TagOp("delete", "panel", t, None))
        BY <3>3 DEF DeleteTag, Named
      <4> QED BY <4>1, ChangesOK
    <3>4. CASE AssignToTag
      <4>1. PICK t, s : t \in TagIds /\ Send(TagOp("assign", "panel", t, s))
        BY <3>4 DEF AssignToTag, Named
      <4> QED BY <4>1, ChangesOK
    <3>5. CASE UnassignFromTag
      <4>1. PICK t, s : t \in TagIds /\ Send(TagOp("unassign", "panel", t, s))
        BY <3>5 DEF UnassignFromTag, Named
      <4> QED BY <4>1, ChangesOK
    <3> QED BY <1>4, <3>1, <3>2, <3>3, <3>4, <3>5 DEF PanelAct
  <2> QED BY <2>1, <2>2, TagAsked
<1>5. CASE Expand
  <2>1. UNCHANGED <<missed, server, tags, tagSessions, sessionTags>>
    BY <1>5 DEF Expand
  <2>2. Named(tags) \in SUBSET TagIds
    BY DEF Named
  <2>3. \/ UNCHANGED calls
        \/ \E t \in Named(tags) : Send(TagSessions(t))
        \/ calls' = calls \o Sent(SetToSeq({TagSessions(t) : t \in Named(tags)}))
    BY <1>5 DEF Expand
  <2>4. CASE \E t \in Named(tags) : Send(TagSessions(t))
    BY <2>1, <2>2, <2>4, ChangesOK, TagAsked
  <2> QED BY <2>1, <2>2, <2>3, <2>4, TagQuiet, UnderAsked
<1>6. CASE Filter
  <2>1. UNCHANGED <<missed, server, tags, tagSessions, sessionTags>>
    BY <1>6 DEF Filter
  <2>2. PICK S : /\ S = {t \in Named(tags) : tags[t] = filterTag'}
                 /\ calls' = calls \o Sent(SetToSeq({TagSessions(t) : t \in S}))
    BY <1>6 DEF Filter
  <2>3. S \in SUBSET TagIds
    BY <2>2 DEF Named
  <2> QED BY <2>1, <2>2, <2>3, UnderAsked
<1>7. CASE HeaderAct
  <2>1. UNCHANGED <<missed, server, tags, tagSessions>>
    BY <1>7 DEF HeaderAct, panel
  <2>2. \E op : Send(op) /\ TagOpOK(op) /\ Raises(op)
    <3>1. CASE toggleTag
      <4>1. PICK t : \/ Send(TagOp("unassign", "header", t, Open))
                    \/ Send(TagOp("assign", "header", t, Open))
        BY <3>1 DEF toggleTag
      <4> QED BY <4>1, ChangesOK
    <3>2. CASE removeTag
      <4>1. PICK t : Send([TagOp("unassign", "header", t, Open) EXCEPT !.name = "remove"])
        BY <3>2 DEF removeTag
      <4>2. /\ TagOpOK([TagOp("unassign", "header", t, Open) EXCEPT !.name = "remove"])
            /\ Raises([TagOp("unassign", "header", t, Open) EXCEPT !.name = "remove"])
        BY ChangesOK
      <4> QED BY <4>1, <4>2
    <3>3. CASE CreateTag("header", Open)
      <4>1. PICK t, n : Send([TagOp("create", "header", t, Open) EXCEPT !.name = n])
        BY <3>3 DEF CreateTag
      <4>2. /\ TagOpOK([TagOp("create", "header", t, Open) EXCEPT !.name = n])
            /\ Raises([TagOp("create", "header", t, Open) EXCEPT !.name = n])
        BY ChangesOK
      <4> QED BY <4>1, <4>2
    <3> QED BY <1>7, <3>1, <3>2, <3>3 DEF HeaderAct
  <2> QED BY <2>1, <2>2, TagAsked
<1>8. CASE OpenDialog
  <2>1. UNCHANGED <<missed, server, tags, tagSessions, sessionTags>>
    BY <1>8 DEF OpenDialog, panel
  <2>2. PICK s : calls' = calls \o Sent(<<Tags("dialog"), SessionTags("dialog", s)>>)
    BY <1>8 DEF OpenDialog
  <2> DEFINE P == Tags("dialog")
             H == SessionTags("dialog", s)
             ops == <<P, H>>
  <2>3. TagOpOK(P) /\ TagOpOK(H)
    BY ChangesOK
  <2>4. calls' = calls \o Sent(ops)
    BY <2>2
  <2> HIDE DEF P, H
  <2>5. ops \in Seq({P, H}) /\ \A k \in 1..Len(ops) : ops[k] \in {P, H}
    BY ElementOfSeq
  <2> HIDE DEF ops
  <2>6. \A k \in 1..Len(ops) : TagOpOK(ops[k])
    BY <2>3, <2>5
  <2>7. Moves(0, ops)
    BY <1>0, <2>4, <2>5, Appended
  <2> QED BY <2>1, <2>6, <2>7, TagsAsked
<1>9. CASE DialogAct
  <2>1. UNCHANGED <<missed, server, tags, tagSessions, sessionTags>>
    BY <1>9 DEF DialogAct, panel
  <2>2. \E op : Send(op) /\ TagOpOK(op)
    <3>1. CASE CreateTag("dialog", dialog)
      <4>1. PICK t, n : Send([TagOp("create", "dialog", t, dialog) EXCEPT !.name = n])
        BY <3>1 DEF CreateTag
      <4>2. TagOpOK([TagOp("create", "dialog", t, dialog) EXCEPT !.name = n])
        BY ChangesOK
      <4> QED BY <4>1, <4>2
    <3>2. CASE \E t : Send(TagOp(IF t \in dialogSessionTags THEN "unassign" ELSE "assign", "dialog", t, dialog))
      <4>1. PICK t : \/ Send(TagOp("unassign", "dialog", t, dialog))
                    \/ Send(TagOp("assign", "dialog", t, dialog))
        BY <3>2
      <4> QED BY <4>1, ChangesOK
    <3> QED BY <1>9, <3>1, <3>2 DEF DialogAct
  <2> QED BY <2>1, <2>2, TagAsked
<1>10. CASE CloseDialog
  <2>1. UNCHANGED <<calls, missed, server, tags, tagSessions, sessionTags>>
    BY <1>10 DEF CloseDialog, panel, requestVars
  <2> QED BY <2>1, TagQuiet
<1> QED BY <1>1, <1>2, <1>3, <1>4, <1>5, <1>6, <1>7, <1>8, <1>9, <1>10 DEF TagNext

-----------------------------------------------------------------------------
(* The settings of the session list                                         *)

SettingKeys == {"hideStale", "staleDays"}
IsLoad(op) == op.key = "load"

\* What the server will have under a key is v, or a save of it has failed.
Agrees(key, v) ==
  \/ \E i \in DOMAIN calls : calls[i].op.key = key /\ calls[i].answer = Failed
  \/ \E i \in DOMAIN calls :
       /\ calls[i].op.key = key /\ calls[i].op.value = v /\ calls[i].answer = Waiting
       /\ \A j \in DOMAIN calls : j > i => calls[j].op.key # key
  \/ /\ srvSettings[key] = v
     /\ \A i \in DOMAIN calls : calls[i].op.key = key => calls[i].answer # Waiting

\* The settings are loaded, and nothing else is under way; or they have been.
Loading ==
  /\ ~settingsLoaded /\ Len(calls) = 1 /\ IsLoad(calls[1].op)
  /\ calls[1].answer \in {Waiting, Failed, srvSettings}
LoadedOnce ==
  /\ settingsLoaded
  /\ \A i \in DOMAIN calls : calls[i].op.key \in SettingKeys
  /\ missed \/ (Agrees("hideStale", hideStale) /\ Agrees("staleDays", staleDays))

SettingsInv ==
  /\ srvSettings = [k \in SettingKeys |-> srvSettings[k]]
  /\ raced \/ Loading \/ LoadedOnce

\* A save is sent for one key; the other keys are as before.
LEMMA AgreesSent ==
  ASSUME QueueInv, NEW op, Send(op), UNCHANGED srvSettings, NEW key, NEW v,
         (op.key # key /\ Agrees(key, v)) \/ (op.key = key /\ op.value = v)
  PROVE  Agrees(key, v)'
<1> DEFINE ops == <<op>>
<1>1. Moves(0, ops)
  BY SendMoves DEF QueueInv
<1>2. Len(ops) = 1 /\ ops[1] = op /\ \A k \in 1..Len(ops) : ops[k] = op
  OBVIOUS
<1> HIDE DEF ops
<1>3. /\ Len(calls) \in Nat /\ DOMAIN calls = 1..Len(calls)
      /\ Len(calls') \in Nat /\ DOMAIN calls' = 1..Len(calls')
  BY <1>1, MovesShape
<1>4. Len(calls') = Len(calls) + 1 /\ \A i \in 1..Len(calls) : calls'[i] = calls[i]
  BY <1>1, <1>2, <1>3 DEF Moves, Moved2
<1>5. calls'[Len(calls) + 1] = [op |-> op, answer |-> Waiting]
  BY <1>1, <1>2, <1>3 DEF Moves, Moved2
<1>6. PICK n \in Nat : n = Len(calls) + 1
  BY <1>3
<1>7. /\ DOMAIN calls' = 1..n /\ calls'[n].op = op /\ calls'[n].answer = Waiting
      /\ \A i \in DOMAIN calls' : i = n \/ (i \in DOMAIN calls /\ calls'[i] = calls[i] /\ ~(i > n))
      /\ \A i \in DOMAIN calls : i \in DOMAIN calls' /\ calls'[i] = calls[i]
  BY <1>3, <1>4, <1>5, <1>6
<1>8. n \in DOMAIN calls' /\ \A i \in DOMAIN calls' : ~(i > n)
  BY <1>3, <1>6, <1>7
<1>9. CASE op.key = key /\ op.value = v
  BY <1>7, <1>8, <1>9 DEF Agrees
<1>10. CASE op.key # key /\ Agrees(key, v)
  BY <1>7, <1>8, <1>10 DEF Agrees
<1> QED BY <1>9, <1>10

\* The first is answered, and had not failed.
LEMMA AgreesAnswered ==
  ASSUME Ordered, QueueInv, NEW i \in ToAnswer, Answered(i, <<>>), ok(i), UNCHANGED srvSettings,
         NEW key, NEW v, Agrees(key, v)
  PROVE  Agrees(key, v)'
<1>1. i = 1 /\ 1 \in DOMAIN calls /\ calls[1].answer # Waiting /\ calls[1].answer # Failed
  BY DEF ToAnswer, ok
<1>2. <<>> \in Seq({None}) /\ Len(<<>>) = 0
  OBVIOUS
<1>3. Moves(1, <<>>)
  BY <1>2, AnsweredMoves DEF QueueInv
<1>4. /\ Len(calls) \in Nat /\ DOMAIN calls = 1..Len(calls)
      /\ Len(calls') \in Nat /\ DOMAIN calls' = 1..Len(calls')
      /\ \A k \in DOMAIN calls' : k + 1 \in DOMAIN calls /\ calls'[k] = calls[k + 1]
      /\ \A j \in DOMAIN calls : j > 1 => j - 1 \in DOMAIN calls' /\ calls'[j - 1] = calls[j]
  BY <1>2, <1>3, MovesShape
<1>5. CASE \E j \in DOMAIN calls : calls[j].op.key = key /\ calls[j].answer = Failed
  <2>1. PICK j \in DOMAIN calls : calls[j].op.key = key /\ calls[j].answer = Failed
    BY <1>5
  <2>2. j > 1
    BY <1>1, <1>4, <2>1
  <2> QED BY <1>4, <2>1, <2>2 DEF Agrees
<1>6. CASE \E j \in DOMAIN calls :
             /\ calls[j].op.key = key /\ calls[j].op.value = v /\ calls[j].answer = Waiting
             /\ \A k \in DOMAIN calls : k > j => calls[k].op.key # key
  <2>1. PICK j \in DOMAIN calls :
             /\ calls[j].op.key = key /\ calls[j].op.value = v /\ calls[j].answer = Waiting
             /\ \A k \in DOMAIN calls : k > j => calls[k].op.key # key
    BY <1>6
  <2>2. j > 1
    BY <1>1, <1>4, <2>1
  <2>3. j - 1 \in DOMAIN calls' /\ calls'[j - 1] = calls[j]
    BY <1>4, <2>2
  <2>4. ASSUME NEW k \in DOMAIN calls', k > j - 1 PROVE calls'[k].op.key # key
    <3>1. k + 1 \in DOMAIN calls /\ k + 1 > j /\ calls'[k] = calls[k + 1]
      BY <1>4, <2>4
    <3> QED BY <2>1, <3>1
  <2> QED BY <2>1, <2>3, <2>4 DEF Agrees
<1>7. CASE /\ srvSettings[key] = v
           /\ \A j \in DOMAIN calls : calls[j].op.key = key => calls[j].answer # Waiting
  BY <1>4, <1>7 DEF Agrees
<1> QED BY <1>5, <1>6, <1>7 DEF Agrees

\* The server takes a save up, or it is lost before or after.
LEMMA AgreesServed ==
  ASSUME Ordered, QueueInv, NEW i, NEW answer, Serves(i, answer), NEW key, NEW v, Agrees(key, v),
         \/ calls[i].op.key = key /\ (answer = Failed \/ srvSettings'[key] = calls[i].op.value)
         \/ calls[i].op.key # key /\ srvSettings'[key] = srvSettings[key]
  PROVE  Agrees(key, v)'
<1>1. /\ Len(calls) \in Nat /\ DOMAIN calls = 1..Len(calls) /\ DOMAIN calls' = DOMAIN calls
      /\ i \in DOMAIN calls /\ calls[i].answer = Waiting /\ calls'[i].answer = answer
      /\ \A j \in DOMAIN calls : /\ calls'[j].op = calls[j].op
                                 /\ j # i => calls'[j] = calls[j]
                                 /\ j > i => calls[j].answer = Waiting
  BY ServesShape
<1>2. \A j \in 1..(i - 1) : calls[j].answer # Waiting
  BY DEF Serves, ToServe
<1>3. CASE \E j \in DOMAIN calls : calls[j].op.key = key /\ calls[j].answer = Failed
  <2>1. PICK j \in DOMAIN calls : calls[j].op.key = key /\ calls[j].answer = Failed
    BY <1>3
  <2>2. j # i
    BY <1>1, <2>1, RequestAssumption
  <2> QED BY <1>1, <2>1, <2>2 DEF Agrees
<1>4. CASE \E j \in DOMAIN calls :
             /\ calls[j].op.key = key /\ calls[j].op.value = v /\ calls[j].answer = Waiting
             /\ \A k \in DOMAIN calls : k > j => calls[k].op.key # key
  <2>1. PICK j \in DOMAIN calls :
             /\ calls[j].op.key = key /\ calls[j].op.value = v /\ calls[j].answer = Waiting
             /\ \A k \in DOMAIN calls : k > j => calls[k].op.key # key
    BY <1>4
  <2>2. CASE j # i \/ answer = Waiting
    BY <1>1, <2>1, <2>2 DEF Agrees
  <2>3. CASE j = i /\ answer = Failed
    BY <1>1, <2>1, <2>3 DEF Agrees
  <2>4. CASE j = i /\ answer \notin {Waiting, Failed}
    <3>1. ASSUME NEW k \in DOMAIN calls', calls'[k].op.key = key PROVE calls'[k].answer # Waiting
      <4>1. CASE k = i
        BY <1>1, <2>4, <4>1
      <4>2. CASE k # i
        <5>1. ~(k > i) /\ k \in 1..(i - 1)
          BY <1>1, <2>1, <2>4, <3>1, <4>2
        <5> QED BY <1>1, <1>2, <4>2, <5>1
      <4> QED BY <4>1, <4>2
    <3>2. srvSettings'[key] = v
      BY <2>1, <2>4
    <3> QED BY <3>1, <3>2 DEF Agrees
  <2> QED BY <2>2, <2>3, <2>4
<1>5. CASE /\ srvSettings[key] = v
           /\ \A j \in DOMAIN calls : calls[j].op.key = key => calls[j].answer # Waiting
  <2>1. calls[i].op.key # key
    BY <1>1, <1>5
  <2> QED BY <1>1, <1>5, <2>1 DEF Agrees
<1> QED BY <1>3, <1>4, <1>5 DEF Agrees

LEMMA SettingsQuiet ==
  ASSUME QueueInv, SettingsInv, UNCHANGED <<calls, missed, settings, staleDays>>
  PROVE  QueueInv' /\ SettingsInv'
BY DEF QueueInv, Queue, InOrder, SettingsInv, Loading, LoadedOnce, Agrees, settings

\* What is sent, behind what was.
LEMMA SentLast ==
  ASSUME QueueInv, NEW op, Send(op)
  PROVE  /\ QueueInv' /\ \A i \in DOMAIN calls' : calls'[i].op = op \/ \E j \in DOMAIN calls : calls'[i] = calls[j]
         /\ calls = <<>> => Len(calls') = 1 /\ calls'[1] = [op |-> op, answer |-> Waiting]
<1> DEFINE ops == <<op>>
<1>1. Moves(0, ops)
  BY SendMoves DEF QueueInv
<1>2. Len(ops) = 1 /\ ops[1] = op /\ \A k \in 1..Len(ops) : ops[k] = op
  OBVIOUS
<1> HIDE DEF ops
<1>3. calls = <<>> => Len(calls') = 1 /\ calls'[1] = [op |-> op, answer |-> Waiting]
  <2>1. ASSUME calls = <<>> PROVE Len(calls) = 0
    BY <2>1
  <2>2. Len(calls') = Len(calls) - 0 + Len(ops)
        /\ \A k \in 1..Len(ops) : calls'[Len(calls) - 0 + k] = [op |-> ops[k], answer |-> Waiting]
    BY <1>1 DEF Moves, Moved2
  <2> QED BY <1>2, <2>1, <2>2
<1>4. \A i \in DOMAIN calls' : calls'[i].op = op \/ \E j \in DOMAIN calls : calls'[i] = calls[j]
  BY <1>1, <1>2, MovesShape
<1> QED BY <1>1, <1>3, <1>4, MovesShape

LEMMA ChangeKeeps ==
  ASSUME QueueInv, SettingsInv, ChangeSetting
  PROVE  QueueInv' /\ SettingsInv'
<1>1. /\ raced' = (raced \/ ~settingsLoaded) /\ UNCHANGED <<missed, settingsLoaded, srvSettings>>
      /\ \/ Send(SettingOp("hideStale", hideStale')) /\ UNCHANGED staleDays
         \/ Send(SettingOp("staleDays", staleDays')) /\ UNCHANGED hideStale
  BY DEF ChangeSetting
<1>2. PICK hide, days : hide = hideStale' /\ days = staleDays'
  OBVIOUS
<1>3. \/ Send(SettingOp("hideStale", hide)) /\ days = staleDays
      \/ Send(SettingOp("staleDays", days)) /\ hide = hideStale
  BY <1>1, <1>2
<1>4. \A v : /\ SettingOp("hideStale", v).key = "hideStale" /\ SettingOp("hideStale", v).value = v
             /\ SettingOp("staleDays", v).key = "staleDays" /\ SettingOp("staleDays", v).value = v
  BY DEF SettingOp
<1>5. QueueInv' /\ srvSettings' = [k \in SettingKeys |-> srvSettings'[k]]
  BY <1>1, <1>3, SentLast DEF SettingsInv
<1>6. CASE raced \/ ~settingsLoaded
  BY <1>1, <1>5, <1>6 DEF SettingsInv
<1>7. CASE ~raced /\ settingsLoaded
  <2>1. LoadedOnce
    BY <1>7 DEF SettingsInv, Loading
  <2>2. \A i \in DOMAIN calls' : calls'[i].op.key \in SettingKeys
    <3>1. PICK op : Send(op) /\ op.key \in SettingKeys
      BY <1>3, <1>4 DEF SettingKeys
    <3>2. \A i \in DOMAIN calls' : calls'[i].op = op \/ \E j \in DOMAIN calls : calls'[i] = calls[j]
      BY <3>1, SentLast
    <3> QED BY <2>1, <3>1, <3>2 DEF LoadedOnce
  <2>3. ASSUME ~missed PROVE Agrees("hideStale", hide)' /\ Agrees("staleDays", days)'
    <3>1. Agrees("hideStale", hideStale) /\ Agrees("staleDays", staleDays)
      BY <2>1, <2>3 DEF LoadedOnce
    <3>2. CASE Send(SettingOp("hideStale", hide)) /\ days = staleDays
      <4>1. PICK op : op = SettingOp("hideStale", hide)
        OBVIOUS
      <4>2. Send(op) /\ op.key = "hideStale" /\ op.value = hide
        BY <1>4, <3>2, <4>1
      <4>3. Agrees("staleDays", days)
        BY <3>1, <3>2
      <4>4. "hideStale" # "staleDays"
        OBVIOUS
      <4> QED BY <1>1, <4>2, <4>3, <4>4, AgreesSent
    <3>3. CASE Send(SettingOp("staleDays", days)) /\ hide = hideStale
      <4>1. PICK op : op = SettingOp("staleDays", days)
        OBVIOUS
      <4>2. Send(op) /\ op.key = "staleDays" /\ op.value = days
        BY <1>4, <3>3, <4>1
      <4>3. Agrees("hideStale", hide)
        BY <3>1, <3>3
      <4>4. "hideStale" # "staleDays"
        OBVIOUS
      <4> QED BY <1>1, <4>2, <4>3, <4>4, AgreesSent
    <3> QED BY <1>3, <3>2, <3>3
  <2>4. missed' \/ (Agrees("hideStale", hideStale) /\ Agrees("staleDays", staleDays))'
    <3>1. Agrees("hideStale", hide)' => Agrees("hideStale", hideStale)'
      BY <1>2 DEF Agrees
    <3>2. Agrees("staleDays", days)' => Agrees("staleDays", staleDays)'
      BY <1>2 DEF Agrees
    <3> QED BY <1>1, <2>3, <3>1, <3>2
  <2> QED BY <1>1, <1>5, <1>7, <2>2, <2>4 DEF SettingsInv, LoadedOnce
<1> QED BY <1>6, <1>7

LEMMA SettingServed ==
  ASSUME Ordered, QueueInv, SettingsInv, NEW i, NEW answer, Serves(i, answer),
         UNCHANGED <<missed, hideStale, staleDays, settingsLoaded, raced>>,
         \/ answer = Failed /\ UNCHANGED srvSettings
         \/ IsLoad(calls[i].op) /\ answer \in {Failed, srvSettings} /\ UNCHANGED srvSettings
         \/ /\ ~IsLoad(calls[i].op)
            /\ srvSettings' = [srvSettings EXCEPT ![calls[i].op.key] = calls[i].op.value]
  PROVE  QueueInv' /\ SettingsInv'
<1>1. /\ QueueInv' /\ DOMAIN calls' = DOMAIN calls /\ i \in DOMAIN calls
      /\ DOMAIN calls = 1..Len(calls) /\ Len(calls) \in Nat /\ calls'[i].answer = answer
      /\ \A j \in DOMAIN calls : /\ calls'[j].op = calls[j].op
                                 /\ j # i => calls'[j] = calls[j]
  BY ServesShape
<1>2. Len(calls') = Len(calls)
  BY DEF Serves
<1>3. PICK srv : srv = srvSettings'
  OBVIOUS
<1>4. srv = [k \in SettingKeys |-> srv[k]]
  <2>1. CASE srv = srvSettings
    BY <2>1 DEF SettingsInv
  <2>2. CASE srv = [srvSettings EXCEPT ![calls[i].op.key] = calls[i].op.value]
    BY <2>2 DEF SettingsInv
  <2> QED BY <1>3, <2>1, <2>2
<1>5. CASE raced
  BY <1>1, <1>3, <1>4, <1>5 DEF SettingsInv
<1>6. CASE Loading
  <2>1. i = 1 /\ IsLoad(calls[i].op)
    BY <1>1, <1>6 DEF Loading
  <2>2. answer \in {Waiting, Failed, srvSettings'} /\ IsLoad(calls'[1].op)
    BY <1>1, <2>1 DEF IsLoad
  <2>3. Loading'
    BY <1>1, <1>2, <1>6, <2>1, <2>2 DEF Loading
  <2> QED BY <1>1, <1>3, <1>4, <2>3 DEF SettingsInv
<1>7. CASE LoadedOnce
  <2>1. calls[i].op.key \in SettingKeys /\ ~IsLoad(calls[i].op)
    BY <1>1, <1>7 DEF LoadedOnce, IsLoad, SettingKeys
  <2>2. \A j \in DOMAIN calls' : calls'[j].op.key \in SettingKeys
    BY <1>1, <1>7 DEF LoadedOnce
  <2>3. ASSUME NEW key \in SettingKeys
        PROVE  \/ calls[i].op.key = key /\ (answer = Failed \/ srvSettings'[key] = calls[i].op.value)
               \/ calls[i].op.key # key /\ srvSettings'[key] = srvSettings[key]
    <3>1. CASE answer = Failed /\ UNCHANGED srvSettings
      BY <3>1
    <3>2. CASE srvSettings' = [srvSettings EXCEPT ![calls[i].op.key] = calls[i].op.value]
      <4>1. srv = [srvSettings EXCEPT ![calls[i].op.key] = calls[i].op.value]
            /\ srvSettings = [k \in SettingKeys |-> srvSettings[k]]
        BY <1>3, <3>2 DEF SettingsInv
      <4>2. /\ calls[i].op.key = key => srv[key] = calls[i].op.value
            /\ calls[i].op.key # key => srv[key] = srvSettings[key]
        BY <2>1, <4>1
      <4> QED BY <1>3, <4>2
    <3> QED BY <2>1, <3>1, <3>2
  <2>4. \A key, v : key \in SettingKeys /\ Agrees(key, v) => Agrees(key, v)'
    BY <2>3, AgreesServed
  <2>5. PICK hide, days : hide = hideStale /\ days = staleDays
    OBVIOUS
  <2>6. ~missed => Agrees("hideStale", hide)' /\ Agrees("staleDays", days)'
    <3>1. ~missed => Agrees("hideStale", hide) /\ Agrees("staleDays", days)
      BY <1>7, <2>5 DEF LoadedOnce
    <3> QED BY <2>4, <3>1 DEF SettingKeys
  <2>7. /\ Agrees("hideStale", hide)' => Agrees("hideStale", hideStale)'
        /\ Agrees("staleDays", days)' => Agrees("staleDays", staleDays)'
    BY <2>5 DEF Agrees
  <2> QED BY <1>1, <1>3, <1>4, <1>7, <2>2, <2>6, <2>7 DEF SettingsInv, LoadedOnce
<1> QED BY <1>5, <1>6, <1>7 DEF SettingsInv

LEMMA SettingAnswered ==
  ASSUME Ordered, QueueInv, SettingsInv, SettingsAnswer
  PROVE  QueueInv' /\ SettingsInv'
<1>1. PICK i \in ToAnswer :
        /\ IF calls[i].op.key = "load"
           THEN /\ hideStale' = Loaded(i).hideStale /\ staleDays' = Loaded(i).staleDays
                /\ settingsLoaded' = TRUE
           ELSE UNCHANGED <<hideStale, staleDays, settingsLoaded>>
        /\ missed' = (missed \/ ~ok(i)) /\ Answered(i, <<>>)
        /\ UNCHANGED <<srvSettings, raced>>
  BY DEF SettingsAnswer
<1>2. <<>> \in Seq({None}) /\ Len(<<>>) = 0
  OBVIOUS
<1>3. i = 1 /\ Moves(1, <<>>) /\ calls[1].answer # Waiting
  BY <1>1, <1>2, AnsweredMoves DEF QueueInv, ToAnswer
<1>4. /\ QueueInv' /\ Len(calls) \in Nat /\ DOMAIN calls = 1..Len(calls)
      /\ \A k \in DOMAIN calls' : k + 1 \in DOMAIN calls /\ calls'[k] = calls[k + 1]
  BY <1>2, <1>3, MovesShape
<1>5. srvSettings' = [k \in SettingKeys |-> srvSettings'[k]]
  BY <1>1 DEF SettingsInv
<1>6. CASE raced
  BY <1>1, <1>4, <1>5, <1>6 DEF SettingsInv
<1>7. CASE Loading
  <2>1. calls[i].op.key = "load" /\ settingsLoaded' = TRUE
    BY <1>1, <1>3, <1>7 DEF Loading, IsLoad
  <2>2. \A k \in DOMAIN calls' : FALSE
    <3>1. Len(calls) = 1
      BY <1>7 DEF Loading
    <3>2. Len(calls') = 1 - 1 + 0
      BY <1>2, <1>3, <3>1 DEF Moves, Moved2
    <3>3. DOMAIN calls' = 1..Len(calls')
      BY <1>3, <1>4, QueueShape DEF Moves
    <3> QED BY <3>2, <3>3
  <2>3. ok(i) => hideStale' = srvSettings["hideStale"] /\ staleDays' = srvSettings["staleDays"]
    <3>1. ok(i) => calls[i].answer = srvSettings
      BY <1>3, <1>7 DEF Loading, ok
    <3>2. hideStale' = Loaded(i).hideStale /\ staleDays' = Loaded(i).staleDays
      BY <1>1, <2>1
    <3> QED BY <3>1, <3>2 DEF Loaded
  <2>4. PICK hide, days : hide = hideStale' /\ days = staleDays'
    OBVIOUS
  <2>5. ok(i) => Agrees("hideStale", hideStale)' /\ Agrees("staleDays", staleDays)'
    BY <1>1, <2>2, <2>3 DEF Agrees
  <2> QED BY <1>1, <1>4, <1>5, <2>1, <2>2, <2>5 DEF SettingsInv, LoadedOnce
<1>8. CASE LoadedOnce
  <2>1. calls[i].op.key # "load"
    BY <1>3, <1>8 DEF LoadedOnce, SettingKeys, ToAnswer
  <2>2. settingsLoaded' /\ hideStale' = hideStale /\ staleDays' = staleDays
    BY <1>1, <1>8, <2>1 DEF LoadedOnce
  <2>3. \A k \in DOMAIN calls' : calls'[k].op.key \in SettingKeys
    BY <1>4, <1>8 DEF LoadedOnce
  <2>4. PICK hide, days : hide = hideStale /\ days = staleDays
    OBVIOUS
  <2>5. ok(i) /\ ~missed => Agrees("hideStale", hide)' /\ Agrees("staleDays", days)'
    <3>1. ~missed => Agrees("hideStale", hide) /\ Agrees("staleDays", days)
      BY <1>8, <2>4 DEF LoadedOnce
    <3> QED BY <1>1, <3>1, AgreesAnswered
  <2>6. /\ Agrees("hideStale", hide)' => Agrees("hideStale", hideStale)'
        /\ Agrees("staleDays", days)' => Agrees("staleDays", staleDays)'
    BY <2>2, <2>4 DEF Agrees
  <2> QED BY <1>1, <1>4, <1>5, <2>2, <2>3, <2>5, <2>6 DEF SettingsInv, LoadedOnce
<1> QED BY <1>6, <1>7, <1>8 DEF SettingsInv

LEMMA SettingsKeep ==
  ASSUME Ordered, QueueInv, SettingsInv, SidebarNext
  PROVE  QueueInv' /\ SettingsInv'
<1>0. Queue(calls)
  BY DEF QueueInv
<1>1. CASE ServeSettings
  <2>1. PICK i \in ToServe :
          /\ Serve(i, IF calls[i].op.key = "load" THEN srvSettings ELSE "done")
          /\ srvSettings' = IF calls[i].op.key = "load" THEN srvSettings
                            ELSE [srvSettings EXCEPT ![calls[i].op.key] = calls[i].op.value]
          /\ UNCHANGED <<missed, hideStale, staleDays, settingsLoaded, raced>>
    BY <1>1 DEF ServeSettings
  <2>2. PICK answer : /\ Serves(i, answer)
                      /\ calls[i].op.key = "load" => answer \in {Failed, srvSettings}
    BY <1>0, <2>1, Served
  <2> QED BY <2>1, <2>2, SettingServed DEF IsLoad
<1>2. CASE LoseRequest /\ UNCHANGED <<acts, missed, sidebarVars>>
  <2>1. PICK i \in ToServe : Serves(i, Failed)
    BY <1>0, <1>2, Lost
  <2>2. UNCHANGED <<missed, hideStale, staleDays, settingsLoaded, raced, srvSettings>>
    BY <1>2 DEF sidebarVars
  <2> QED BY <2>1, <2>2, SettingServed
<1>3. CASE Reopen
  <2>1. /\ calls = <<>> /\ Send(SettingOp("load", None)) /\ settingsLoaded' = FALSE
        /\ UNCHANGED srvSettings
    BY <1>3 DEF Reopen
  <2>2. QueueInv' /\ Len(calls') = 1 /\ calls'[1] = [op |-> SettingOp("load", None), answer |-> Waiting]
    BY <2>1, SentLast
  <2>3. Loading'
    BY <2>1, <2>2 DEF Loading, IsLoad, SettingOp
  <2> QED BY <2>1, <2>2, <2>3 DEF SettingsInv
<1>4. CASE toggleCollapse \/ CollapseOrExpandAll \/ setGroup \/ toggleDisplayMode \/ dismiss \/ setFilter
  <2>1. UNCHANGED <<calls, missed, settings>>
    BY <1>4 DEF toggleCollapse, CollapseOrExpandAll, setGroup, toggleDisplayMode, dismiss, setFilter,
                Collapse, panelRest, noCalls
  <2> QED BY <2>1, SettingsQuiet DEF settings
<1>5. CASE Menus \/ ListChanges \/ OpenSession \/ Notified
  <2>1. UNCHANGED <<calls, missed, settings>>
    BY <1>5 DEF Menus, ListChanges, OpenSession, Notified, noCalls, panelState
  <2> QED BY <2>1, SettingsQuiet DEF settings
<1> QED BY <1>1, <1>2, <1>3, <1>4, <1>5, SettingAnswered, ChangeKeeps DEF SidebarNext

\* What is chosen is stored with the choice, in whatever panel.
KeptInv ==
  /\ kept = [collapsed |-> collapsed, group |-> groupMode, display |-> displayMode,
             dismissed |-> dismissed]
  /\ keptKinds = visibility

LEMMA KeptStays ==
  ASSUME KeptInv, [Next]_vars
  PROVE  KeptInv'
<1>1. CASE UNCHANGED <<stored, keptKinds, visibility>>
  BY <1>1 DEF KeptInv, stored
<1>2. CASE SidebarNext /\ UNCHANGED treeVars
  <2>1. UNCHANGED <<keptKinds, visibility>>
    BY <1>2 DEF treeVars
  <2>2. ASSUME NEW set, Collapse(set) PROVE KeptInv'
    BY <2>1, <2>2 DEF Collapse, Keep, KeptInv
  <2>3. CASE setGroup
    BY <2>1, <2>3 DEF setGroup, Keep, KeptInv
  <2>4. CASE toggleDisplayMode
    BY <2>1, <2>4 DEF toggleDisplayMode, Keep, KeptInv
  <2>5. CASE dismiss
    BY <2>1, <2>5 DEF dismiss, Keep, KeptInv
  <2>6. CASE Reopen
    BY <2>1, <2>6 DEF Reopen, KeptInv
  <2>7. CASE \/ setFilter \/ Menus \/ ChangeSetting \/ ServeSettings \/ SettingsAnswer
             \/ LoseRequest /\ UNCHANGED <<acts, missed, sidebarVars>>
    BY <1>1, <2>1, <2>7 DEF setFilter, Menus, ChangeSetting, ServeSettings, SettingsAnswer, sidebarVars, stored
  <2>8. CASE ListChanges \/ OpenSession \/ Notified
    BY <1>1, <2>1, <2>8 DEF ListChanges, OpenSession, Notified, panelState, stored
  <2>9. CASE toggleCollapse
    <3>1. \E set : Collapse(set)
      BY <2>9 DEF toggleCollapse
    <3> QED BY <2>2, <3>1
  <2>10. CASE CollapseOrExpandAll
    <3>1. \E set : Collapse(set)
      BY <2>10 DEF CollapseOrExpandAll
    <3> QED BY <2>2, <3>1
  <2> QED BY <1>2, <2>3, <2>4, <2>5, <2>6, <2>7, <2>8, <2>9, <2>10 DEF SidebarNext
<1>3. CASE FileTreeNext /\ UNCHANGED sidebarVars
  <2>1. UNCHANGED <<collapsed, groupMode, displayMode, dismissed, kept>>
    BY <1>3 DEF sidebarVars
  <2>2. CASE ToggleKinds
    <3>1. PICK kinds : keptKinds' = kinds /\ visibility' = kinds
      BY <2>2 DEF ToggleKinds, Effects
    <3> QED BY <2>1, <3>1 DEF KeptInv
  <2>3. ASSUME NEW acc, NEW closed, NEW sel, NEW focus,
               Effects(acc, visibility, closed, sel, focus), UNCHANGED keptKinds
        PROVE  KeptInv'
    BY <2>1, <2>3 DEF Effects, KeptInv
  <2>4. ASSUME NEW closed, NEW focus, SetDirs(closed, focus) PROVE KeptInv'
    BY <2>3, <2>4 DEF SetDirs
  <2>5. ASSUME NEW p, NEW focus, SelectFile(p, focus) PROVE KeptInv'
    BY <2>3, <2>5 DEF SelectFile
  <2>6. CASE AccessesChange
    BY <2>3, <2>6 DEF AccessesChange
  <2>7. CASE ScratchChanges
    BY <2>3, <2>7 DEF ScratchChanges
  <2>8. CASE toggleDir \/ FoldAll \/ ClickFile
    BY <2>4, <2>5, <2>8 DEF toggleDir, FoldAll, ClickFile
  <2>9. CASE handleKeyDown
    BY <2>4, <2>5, <2>9 DEF handleKeyDown, FocusRow, ArrowRight, ArrowLeft, Enter
  <2>10. CASE Focus \/ SelectScratch \/ ExpandScratch \/ Rename
    BY <2>1, <2>10 DEF Focus, SelectScratch, ExpandScratch, Rename, treeState, KeptInv
  <2> QED BY <1>3, <2>2, <2>6, <2>7, <2>8, <2>9, <2>10 DEF FileTreeNext
<1>4. CASE Sample \/ (LibraryNext /\ UNCHANGED <<part, sidebarVars, treeVars>>) \/ UNCHANGED vars
  BY <1>1, <1>4 DEF Sample, panelState, treeVars, sidebarVars, stored, vars
<1> QED BY <1>2, <1>3, <1>4 DEF Next

-----------------------------------------------------------------------------
(* The tree of files                                                        *)

Records == [path : Seq(Nat), kind : Kinds]

\* What passes is a list of the same, and finite.
Among(list, set) == Where(list, LAMBDA x : x \in set)

LEMMA AmongType ==
  ASSUME NEW S, NEW list \in Seq(S), NEW set
  PROVE  /\ Among(list, set) \in Seq(S)
         /\ \A x \in ToSet(Among(list, set)) : x \in ToSet(list) /\ x \in set
         /\ (\E x \in ToSet(list) : x \in set) => Among(list, set) # <<>>
<1> DEFINE t == [i \in DOMAIN list |-> list[i] \in set]
           each == [i \in DOMAIN list |-> IF t[i] THEN <<list[i]>> ELSE <<>>]
           passed == {list[i] : i \in {j \in DOMAIN list : t[j]}}
           some == Among(list, set)
<1>1. some = FlattenSeq(each)
  BY DEF Where, Among
<1>2. \A i \in DOMAIN list : t[i] = (list[i] \in set)
  OBVIOUS
<1> HIDE DEF t
<1>3. /\ FlattenSeq(each) \in Seq(S) /\ FlattenSeq(each) \in Seq(passed)
      /\ (\E i \in DOMAIN list : t[i]) => FlattenSeq(each) # <<>>
  BY WhereKeeps
<1> HIDE DEF each, passed, some
<1>4. \A x \in ToSet(some) : x \in passed
  BY <1>1, <1>3, ElementOfSeq, LenProperties DEF ToSet
<1>5. \A x \in passed : x \in ToSet(list) /\ x \in set
  BY <1>2 DEF passed, ToSet
<1>6. (\E x \in ToSet(list) : x \in set) => \E i \in DOMAIN list : t[i]
  BY <1>2 DEF ToSet
<1> QED BY <1>1, <1>3, <1>4, <1>5, <1>6 DEF some

\* The rows, and how they are laid out.
OpenRows(files, closed) ==
  {p \in ShownDirs(files) \cup files : \A d \in ShownDirs(files) \cap closed : ~IsStrictPrefix(d, p)}
LaidOut(files, S) ==
  LET before == [x \in S |-> Cardinality({y \in S : Before(y, x, files)})]
  IN [k \in 1..Cardinality(S) |-> CHOOSE x \in S : before[x] = k - 1]

LEMMA RowsLaidOut ==
  ASSUME NEW files, NEW closed
  PROVE  RowsIn(files, closed) = LaidOut(files, OpenRows(files, closed))
BY DEF RowsIn, Sorted, LaidOut, OpenRows

\* A map that forgets what is no directory any more hides the same rows.
LEMMA RebuiltHidesTheSame ==
  ASSUME NEW files, NEW closed
  PROVE  RowsIn(files, Rebuilt(closed, files)) = RowsIn(files, closed)
<1>1. ShownDirs(files) \cap Rebuilt(closed, files) = ShownDirs(files) \cap closed
  BY DEF Rebuilt
<1>2. OpenRows(files, Rebuilt(closed, files)) = OpenRows(files, closed)
  BY <1>1 DEF OpenRows
<1> QED BY <1>2, RowsLaidOut

LEMMA DirsAreFinite ==
  ASSUME NEW files \in SUBSET Seq(Nat), IsFiniteSet(files)
  PROVE  IsFiniteSet(Dirs(files))
<1> DEFINE above(f) == {SubSeq(f, 1, k) : k \in 1..(Len(f) - 1)}
           all == {above(f) : f \in files}
<1>1. ASSUME NEW f \in files PROVE IsFiniteSet(above(f))
  <2> DEFINE g == [k \in 1..(Len(f) - 1) |-> SubSeq(f, 1, k)]
  <2>1. Len(f) - 1 \in Int
    BY LenProperties
  <2>2. IsFiniteSet(1..(Len(f) - 1))
    BY <2>1, FS_Interval
  <2>3. g \in Surjection(1..(Len(f) - 1), above(f))
    BY DEF Surjection
  <2> QED BY <2>2, <2>3, FS_Surjection
<1>2. IsFiniteSet(all)
  <2> DEFINE h == [f \in files |-> above(f)]
  <2>1. h \in Surjection(files, all)
    BY DEF Surjection
  <2> HIDE DEF h, above
  <2> QED BY <2>1, FS_Surjection
<1>3. \A T \in all : IsFiniteSet(T)
  BY <1>1
<1>4. Dirs(files) = UNION all
  BY DEF Dirs
<1> HIDE DEF all
<1> QED BY <1>2, <1>3, <1>4, FS_UNION

\* What the files shown are: paths, and finitely many.
LEMMA FilteredType ==
  ASSUME NEW acc \in Seq(Records), NEW kinds
  PROVE  FilteredPaths(acc, kinds) \in SUBSET Seq(Nat) /\ IsFiniteSet(FilteredPaths(acc, kinds))
<1> DEFINE t == [i \in DOMAIN acc |-> acc[i].kind \in kinds]
           some == Where(acc, LAMBDA a : a.kind \in kinds)
<1>1. some = FlattenSeq([i \in DOMAIN acc |-> IF t[i] THEN <<acc[i]>> ELSE <<>>])
  BY DEF Where
<1> HIDE DEF t
<1>2. some \in Seq(Records)
  BY <1>1, WhereKeeps
<1>3. FilteredPaths(acc, kinds) = PathsOf(some)
  BY DEF FilteredPaths
<1> HIDE DEF some
<1>4. Len(some) \in Nat /\ DOMAIN some = 1..Len(some) /\ \A i \in 1..Len(some) : some[i] \in Records
  BY <1>2, LenProperties, ElementOfSeq
<1> DEFINE n == Len(some)
           f == [i \in 1..n |-> some[i].path]
<1>5. PathsOf(some) = {some[i].path : i \in 1..n}
  BY <1>4 DEF PathsOf, ToSet
<1>6. f \in Surjection(1..n, PathsOf(some))
  BY <1>5 DEF Surjection
<1>7. IsFiniteSet(1..n)
  BY <1>4, FS_Interval
<1>8. IsFiniteSet(PathsOf(some))
  BY <1>6, <1>7, FS_Surjection
<1>9. PathsOf(some) \in SUBSET Seq(Nat)
  BY <1>4, <1>5 DEF Records
<1> QED BY <1>3, <1>8, <1>9

LEMMA RowsType ==
  ASSUME NEW files \in SUBSET Seq(Nat), IsFiniteSet(files), NEW closed
  PROVE  RowsIn(files, closed) \in Seq(ToSet(RowsIn(files, closed)))
<1> DEFINE S == OpenRows(files, closed)
           laid == RowsIn(files, closed)
<1>1. S \in SUBSET (Dirs(files) \cup files)
  BY DEF OpenRows, ShownDirs
<1>2. IsFiniteSet(Dirs(files) \cup files)
  BY DirsAreFinite, FS_Union
<1>3. IsFiniteSet(S)
  BY <1>1, <1>2, FS_Subset
<1>4. Cardinality(S) \in Nat
  BY <1>3, FS_CardinalityType
<1>5. laid = LaidOut(files, S)
  BY RowsLaidOut
<1> HIDE DEF S, laid
<1>6. DOMAIN laid = 1..Cardinality(S) /\ laid = [k \in 1..Cardinality(S) |-> laid[k]]
  <2> DEFINE before == [x \in S |-> Cardinality({y \in S : Before(y, x, files)})]
             at(k) == CHOOSE x \in S : before[x] = k - 1
  <2>1. laid = [k \in 1..Cardinality(S) |-> at(k)]
    BY <1>5 DEF LaidOut
  <2> HIDE DEF at
  <2> QED BY <2>1
<1>7. laid \in [1..Cardinality(S) -> ToSet(laid)]
  BY <1>6 DEF ToSet
<1> QED BY <1>4, <1>7, IsSequence DEF laid

\* The tree shows the file that is selected, if it shows any.
SelectionShown ==
  selectedScratch = None /\ (\E p \in ToSet(treeRows) : IsFile(p)) =>
    selectedPath \in ToSet(treeRows) /\ IsFile(selectedPath)

TreeInv == accesses \in Seq(Records) /\ scratchFiles \subseteq ScratchFiles /\ SelectionShown

\* What the tree chooses is a row that is a file, if there is one.
LEMMA ChosenIsRow ==
  ASSUME NEW acc, NEW laid, laid \in Seq(ToSet(laid)), NEW sel, \E p \in ToSet(laid) : p \in PathsOf(acc)
  PROVE  Chosen(acc, laid, sel) \in ToSet(laid) \cap PathsOf(acc)
<1> DEFINE some == Among(laid, PathsOf(acc))
<1>1. /\ some \in Seq(ToSet(laid)) /\ some # <<>>
      /\ \A x \in ToSet(some) : x \in ToSet(laid) /\ x \in PathsOf(acc)
  BY AmongType
<1>2. PICK wanted : Chosen(acc, laid, sel) = IF some = <<>> \/ wanted \in ToSet(some) THEN wanted ELSE some[1]
  BY DEF Chosen, Among, Where
<1> HIDE DEF some
<1>3. Len(some) \in Nat \ {0} /\ DOMAIN some = 1..Len(some)
  BY <1>1, LenProperties, EmptySeq
<1>4. some[1] \in ToSet(some)
  BY <1>3 DEF ToSet
<1> QED BY <1>1, <1>2, <1>4

LEMMA EffectsShow ==
  ASSUME NEW acc \in Seq(Records), NEW kinds, NEW closed, NEW sel, NEW focus,
         Effects(acc, kinds, closed, sel, focus)
  PROVE  SelectionShown'
<1> DEFINE files == FilteredPaths(acc, kinds)
           laid == RowsIn(files, closed)
<1>1. /\ accesses' = acc /\ visibility' = kinds /\ closedDirs' = Rebuilt(closed, files)
      /\ selectedPath' = Target(acc, laid, sel)
  BY DEF Effects
<1>2. treeRows' = RowsIn(files, Rebuilt(closed, files))
  BY <1>1 DEF treeRows, filesShown
<1>3. treeRows' = laid
  BY <1>2, RebuiltHidesTheSame
<1>4. \A p : IsFile(p)' <=> p \in PathsOf(acc)
  BY <1>1 DEF IsFile
<1>5. laid \in Seq(ToSet(laid))
  BY FilteredType, RowsType
<1>6. selectedScratch' = None => selectedPath' = Chosen(acc, laid, sel)
  BY <1>1 DEF Target
<1> HIDE DEF laid
<1>7. PICK choice : choice = Chosen(acc, laid, sel)
  OBVIOUS
<1>8. (\E p \in ToSet(laid) : p \in PathsOf(acc)) => choice \in ToSet(laid) /\ choice \in PathsOf(acc)
  <2>1. ASSUME \E p \in ToSet(laid) : p \in PathsOf(acc)
        PROVE  choice \in ToSet(laid) \cap PathsOf(acc)
    <3>1. laid \in Seq(ToSet(laid))
      BY <1>5
    <3>2. PICK l : l = laid
      OBVIOUS
    <3>3. Chosen(acc, l, sel) \in ToSet(l) \cap PathsOf(acc)
      BY <2>1, <3>1, <3>2, ChosenIsRow
    <3> QED BY <1>7, <3>2, <3>3
  <2> QED BY <2>1
<1>9. SelectionShown' = (selectedScratch' = None /\ (\E p \in ToSet(treeRows') : p \in PathsOf(accesses'))
        => selectedPath' \in ToSet(treeRows') /\ selectedPath' \in PathsOf(accesses'))
  BY DEF SelectionShown, IsFile
<1> QED BY <1>1, <1>3, <1>6, <1>7, <1>8, <1>9

LEMMA TreeStays ==
  ASSUME TreeInv, UNCHANGED <<accesses, visibility, closedDirs, selectedPath, selectedScratch, scratchFiles>>
  PROVE  TreeInv'
BY DEF TreeInv, SelectionShown, treeRows, filesShown, IsFile

LEMMA TreeKeeps ==
  ASSUME TreeInv, FileTreeNext
  PROVE  TreeInv'
<1>1. ASSUME NEW acc \in Seq(Records), NEW kinds, NEW closed, NEW sel, NEW focus,
             Effects(acc, kinds, closed, sel, focus), scratchFiles' \subseteq ScratchFiles
      PROVE  TreeInv'
  <2>1. accesses' = acc
    BY <1>1 DEF Effects
  <2> QED BY <1>1, <2>1, EffectsShow DEF TreeInv
<1>2. accesses \in Seq(Records) /\ scratchFiles \subseteq ScratchFiles
  BY DEF TreeInv
<1>3. ASSUME NEW closed, NEW focus, SetDirs(closed, focus) PROVE TreeInv'
  BY <1>1, <1>2, <1>3 DEF SetDirs, scratchVars
<1>4. ASSUME NEW p, NEW focus, SelectFile(p, focus) PROVE TreeInv'
  BY <1>1, <1>2, <1>4 DEF SelectFile, scratchVars
<1>5. CASE AccessesChange
  <2>1. PICK set : Effects(FlattenSeq([i \in DOMAIN Accesses |->
                              IF Accesses[i] \in set THEN <<Accesses[i]>> ELSE <<>>]),
                           visibility, closedDirs, selectedPath, focusedPath)
    BY <1>5 DEF AccessesChange, Where
  <2>2. PICK acc : acc = Among(Accesses, set)
    OBVIOUS
  <2>4. acc \in Seq(Records)
    BY <2>2, AccessAssumption, AmongType DEF Records
  <2>3. UNCHANGED scratchFiles
    BY <1>5 DEF AccessesChange, scratchVars
  <2>5. Effects(acc, visibility, closedDirs, selectedPath, focusedPath)
    BY <2>1, <2>2 DEF Among, Where
  <2> QED BY <1>1, <1>2, <2>3, <2>4, <2>5
<1>6. CASE ToggleKinds
  <2>1. PICK kinds : Effects(accesses, kinds, closedDirs, selectedPath, focusedPath)
    BY <1>6 DEF ToggleKinds
  <2>2. UNCHANGED scratchFiles
    BY <1>6 DEF ToggleKinds, scratchVars
  <2> QED BY <1>1, <1>2, <2>1, <2>2
<1>7. CASE ScratchChanges
  <2>1. Effects(accesses, visibility, closedDirs, selectedPath, focusedPath) /\ scratchFiles' \subseteq ScratchFiles
    BY <1>7 DEF ScratchChanges
  <2> QED BY <1>1, <1>2, <2>1
<1>8. CASE toggleDir \/ FoldAll \/ ClickFile
  <2>1. (\E closed, focus : SetDirs(closed, focus)) \/ \E p, focus : SelectFile(p, focus)
    BY <1>8 DEF toggleDir, FoldAll, ClickFile
  <2> QED BY <1>3, <1>4, <2>1
<1>9. CASE handleKeyDown
  <2>1. (\E closed, focus : SetDirs(closed, focus)) \/ \E p, focus : SelectFile(p, focus)
    BY <1>9 DEF handleKeyDown, FocusRow, ArrowRight, ArrowLeft, Enter
  <2> QED BY <1>3, <1>4, <2>1
<1>10. CASE SelectScratch
  <2>1. selectedScratch' # None
    BY <1>2, <1>10, AccessAssumption DEF SelectScratch
  <2>2. UNCHANGED <<accesses, scratchFiles>>
    BY <1>10 DEF SelectScratch, treeState, scratchVars
  <2> QED BY <1>2, <2>1, <2>2 DEF TreeInv, SelectionShown
<1>11. CASE Focus \/ ExpandScratch \/ Rename
  <2>1. UNCHANGED <<accesses, visibility, closedDirs, selectedPath, selectedScratch, scratchFiles>>
    BY <1>11 DEF Focus, ExpandScratch, Rename, treeState, scratchVars
  <2> QED BY <2>1, TreeStays
<1> QED BY <1>5, <1>6, <1>7, <1>8, <1>9, <1>10, <1>11 DEF FileTreeNext

\* A directory that is still shown is closed after what comes, goes or is hidden.
LEMMA ClosedStays ==
  ASSUME [Next]_vars, accesses' # accesses \/ visibility' # visibility,
         NEW d \in closedDirs, d \in ShownDirs(filesShown)'
  PROVE  d \in closedDirs'
<1>1. ASSUME NEW acc, NEW kinds, NEW sel, NEW focus, Effects(acc, kinds, closedDirs, sel, focus)
      PROVE  d \in closedDirs'
  BY <1>1 DEF Effects, Rebuilt, filesShown
<1>2. ASSUME NEW closed, NEW sel, NEW focus, Effects(accesses, visibility, closed, sel, focus)
      PROVE  FALSE
  BY <1>2 DEF Effects
<1>3. FileTreeNext
  BY DEF Next, Sample, LibraryNext, treeVars, vars
<1>4. ASSUME (\E closed, focus : SetDirs(closed, focus)) \/ \E p, focus : SelectFile(p, focus)
      PROVE  FALSE
  BY <1>2, <1>4 DEF SetDirs, SelectFile
<1>5. CASE AccessesChange \/ ToggleKinds
  <2>1. \E acc, kinds : Effects(acc, kinds, closedDirs, selectedPath, focusedPath)
    BY <1>5 DEF AccessesChange, ToggleKinds
  <2> QED BY <1>1, <2>1
<1>6. CASE ScratchChanges
  BY <1>2, <1>6 DEF ScratchChanges
<1>7. CASE toggleDir \/ FoldAll \/ ClickFile \/ handleKeyDown
  <2>1. (\E closed, focus : SetDirs(closed, focus)) \/ \E p, focus : SelectFile(p, focus)
    BY <1>7 DEF toggleDir, FoldAll, ClickFile, handleKeyDown, FocusRow, ArrowRight, ArrowLeft, Enter
  <2> QED BY <1>4, <2>1
<1>8. CASE Focus \/ SelectScratch \/ ExpandScratch \/ Rename
  BY <1>8 DEF Focus, SelectScratch, ExpandScratch, Rename, treeState
<1> QED BY <1>3, <1>5, <1>6, <1>7, <1>8 DEF FileTreeNext

-----------------------------------------------------------------------------
(* The theorems                                                             *)

\* What holds of the panel that is followed; of those that ask the server, when their
\* requests are answered as they are sent.
PanelsInv ==
  /\ KeptInv /\ TreeInv
  /\ Ordered /\ part = "sidebar" => QueueInv /\ SettingsInv
  /\ Ordered /\ part = "prompts" => QueueInv /\ PromptsInv
  /\ Ordered /\ part = "tags" => QueueInv /\ TagsInv
  /\ Ordered /\ part = "shelf" => QueueInv /\ ShelfInv

\* What a panel sends when it is mounted waits, in its order.
LEMMA MountedTwo ==
  ASSUME NEW a, NEW b, calls = Sent(<<a, b>>)
  PROVE  /\ QueueInv /\ DOMAIN calls = 1..2 /\ \A i \in DOMAIN calls : calls[i].answer = Waiting
         /\ calls[1].op = a /\ calls[2].op = b
<1> DEFINE ops == <<a, b>>
<1>1. ops \in Seq({a, b}) /\ Len(ops) = 2 /\ ops[1] = a /\ ops[2] = b
  OBVIOUS
<1>2. calls = Sent(ops)
  OBVIOUS
<1> HIDE DEF ops
<1>3. /\ QueueInv /\ DOMAIN calls = 1..Len(ops)
      /\ \A i \in DOMAIN calls : calls[i].answer = Waiting /\ calls[i].op = ops[i]
  BY <1>1, <1>2, SentStarts
<1>4. DOMAIN calls = 1..2 /\ 1 \in DOMAIN calls /\ 2 \in DOMAIN calls
  BY <1>1, <1>3
<1> QED BY <1>1, <1>3, <1>4

LEMMA PanelsStart ==
  ASSUME Init
  PROVE  PanelsInv
<1>1. KeptInv
  BY DEF Init, SidebarInit, FileTreeInit, KeptInv
<1>2. TreeInv
  <2>1. accesses = <<>> /\ scratchFiles = {}
    BY DEF Init, FileTreeInit
  <2>2. <<>> \in Seq(Records) /\ DOMAIN <<>> = {}
    OBVIOUS
  <2>3. \A p : ~IsFile(p)
    BY <2>1, <2>2 DEF IsFile, PathsOf, ToSet
  <2> QED BY <2>1, <2>2, <2>3 DEF TreeInv, SelectionShown
<1>3. ASSUME part = "sidebar" PROVE QueueInv /\ SettingsInv
  <2> DEFINE op == SettingOp("load", None)
             ops == <<op>>
  <2>1. calls = Sent(ops) /\ settingsLoaded = FALSE
    BY <1>3 DEF Init, Mounts, SidebarInit
  <2>2. ops \in Seq({op}) /\ Len(ops) = 1 /\ ops[1] = op /\ IsLoad(op)
    BY DEF SettingOp, IsLoad
  <2> HIDE DEF ops, op
  <2>3. QueueInv /\ Len(calls) = 1 /\ calls[1].op = op /\ calls[1].answer = Waiting
    BY <2>1, <2>2, SentStarts
  <2>4. srvSettings = [k \in SettingKeys |-> srvSettings[k]]
    BY DEF Init, SidebarInit, SettingKeys
  <2> QED BY <2>1, <2>2, <2>3, <2>4 DEF SettingsInv, Loading
<1>4. ASSUME part = "prompts" PROVE QueueInv /\ PromptsInv
  <2>1. calls = Sent(<<CountPrompts, LoadPrompts>>) /\ announced = 0
    BY <1>4 DEF Init, Mounts, PromptInit
  <2>2. /\ QueueInv /\ DOMAIN calls = 1..2 /\ \A i \in DOMAIN calls : calls[i].answer = Waiting
        /\ calls[1].op = CountPrompts
    BY <2>1, MountedTwo
  <2>3. 1 \in DOMAIN calls /\ Reloads(calls[1])
    BY <2>2 DEF Reloads, CountPrompts, Change
  <2> QED BY <2>1, <2>2, <2>3 DEF PromptsInv, IsLate
<1>5. ASSUME part = "tags" PROVE QueueInv /\ TagsInv
  <2> DEFINE P == Tags("panel")
             H == SessionTags("header", Open)
  <2>1. calls = Sent(<<P, H>>) /\ tagSessions = [t \in TagIds |-> tagSessions[t]]
    BY <1>5 DEF Init, Mounts, TagInit, NoTags
  <2> HIDE DEF P, H
  <2>2. /\ QueueInv /\ DOMAIN calls = 1..2 /\ \A i \in DOMAIN calls : calls[i].answer = Waiting
        /\ calls[1].op = P /\ calls[2].op = H
    BY <2>1, MountedTwo
  <2>3. TagOpOK(P) /\ LoadsTags(P) /\ (\A t : LoadsUnder(P, t)) /\ TagOpOK(H) /\ LoadsHeader(H)
    BY BumpedShape DEF P, H
  <2>4. /\ 1 \in DOMAIN calls /\ 2 \in DOMAIN calls /\ 1 > 0 /\ 2 > 0
        /\ \A i \in DOMAIN calls : calls[i].op \in {P, H}
    BY <2>2
  <2>5. Coming(0, <<>>, LoadsTags) /\ Coming(0, <<>>, LoadsHeader)
    BY <2>2, <2>3, <2>4 DEF Coming
  <2>6. \A t : ComingUnder(0, <<>>, t)
    BY <2>2, <2>3, <2>4 DEF ComingUnder
  <2>7. Current(tags, tagSessions, sessionTags, 0, <<>>)
    BY <2>5, <2>6 DEF Current
  <2>8. \A i \in DOMAIN calls : TagOpOK(calls[i].op)
    BY <2>3, <2>4
  <2> QED BY <2>1, <2>2, <2>7, <2>8 DEF TagsInv
<1>6. ASSUME part = "shelf" PROVE QueueInv /\ ShelfInv
  <2> DEFINE P == ShelfOp("bookmarks", None)
             H == ShelfOp("sources", "mount")
  <2>1. calls = Sent(<<P, H>>) /\ removing = None
    BY <1>6 DEF Init, Mounts, ShelfInit
  <2>2. P.kind = "bookmarks" /\ H.kind = "sources"
    BY DEF ShelfOp
  <2> HIDE DEF P, H
  <2>3. /\ QueueInv /\ DOMAIN calls = 1..2 /\ \A i \in DOMAIN calls : calls[i].answer = Waiting
        /\ calls[1].op = P /\ calls[2].op = H
    BY <2>1, MountedTwo
  <2>4. 1 \in DOMAIN calls /\ 2 \in DOMAIN calls
    BY <2>3
  <2> QED BY <2>1, <2>2, <2>3, <2>4 DEF ShelfInv, BookmarksInv, SourcesInv, RemovalInv
<1> QED BY <1>1, <1>2, <1>3, <1>4, <1>5, <1>6 DEF PanelsInv

LEMMA PanelsKeep ==
  ASSUME PanelsInv, [Next]_vars
  PROVE  PanelsInv'
<1>1. KeptInv'
  BY KeptStays DEF PanelsInv
<1>2. TreeInv'
  <2>1. CASE UNCHANGED treeVars
    BY <2>1, TreeStays DEF PanelsInv, treeVars
  <2>2. CASE FileTreeNext
    BY <2>2, TreeKeeps DEF PanelsInv
  <2> QED BY <2>1, <2>2 DEF Next, Sample, vars
<1>3. part' = part
  BY DEF Next, Sample, LibraryNext, vars
<1>4. ASSUME Ordered, part = "sidebar" PROVE QueueInv' /\ SettingsInv'
  <2>1. CASE SidebarNext
    BY <1>4, <2>1, SettingsKeep DEF PanelsInv
  <2>2. CASE UNCHANGED vars
    BY <1>4, <2>2, SettingsQuiet DEF PanelsInv, vars, requestVars, sidebarVars, settings
  <2> QED BY <1>4, <2>1, <2>2 DEF Next, Sample, LibraryNext
<1>5. ASSUME Ordered, part = "prompts" PROVE QueueInv' /\ PromptsInv'
  <2>1. CASE PromptNext
    BY <1>5, <2>1, PromptKeeps DEF PanelsInv
  <2>2. CASE UNCHANGED vars
    <3>1. UNCHANGED <<calls, missed, prompts, srvPrompts, announced>>
      BY <2>2 DEF vars, requestVars, libraryVars, promptVars
    <3> QED BY <1>5, <3>1 DEF PanelsInv, QueueInv, Queue, InOrder, PromptsInv, IsLate, Reloads
  <2> QED BY <1>5, <2>1, <2>2 DEF Next, Sample, LibraryNext
<1>6. ASSUME Ordered, part = "tags" PROVE QueueInv' /\ TagsInv'
  <2>1. CASE TagNext
    BY <1>6, <2>1, TagKeeps DEF PanelsInv
  <2>2. CASE UNCHANGED vars
    <3>1. UNCHANGED <<calls, missed, tags, tagSessions, sessionTags>> /\ UNCHANGED server
      BY <2>2 DEF vars, requestVars, libraryVars, tagVars, server
    <3> QED BY <1>6, <3>1, TagQuiet DEF PanelsInv
  <2> QED BY <1>6, <2>1, <2>2 DEF Next, Sample, LibraryNext
<1>7. ASSUME Ordered, part = "shelf" PROVE QueueInv' /\ ShelfInv'
  <2>1. CASE ShelfNext
    BY <1>7, <2>1, ShelfKeeps DEF PanelsInv
  <2>2. CASE UNCHANGED vars
    <3>1. UNCHANGED <<calls, missed, bookmarks, sources, srvBookmarks, srvSources, removing>>
      BY <2>2 DEF vars, requestVars, libraryVars, shelfVars
    <3> QED BY <1>7, <3>1 DEF PanelsInv, QueueInv, Queue, InOrder, ShelfInv, BookmarksInv, SourcesInv, RemovalInv
  <2> QED BY <1>7, <2>1, <2>2 DEF Next, Sample, LibraryNext
<1> QED BY <1>1, <1>2, <1>3, <1>4, <1>5, <1>6, <1>7 DEF PanelsInv

\* PanelsInv is inductive: every panel with its queue of requests, whatever the user,
\* the server and another tab do (Panels.tla, Next).
THEOREM PanelsHold == Spec => []PanelsInv
<1>1. Init => PanelsInv
  BY PanelsStart
<1>2. PanelsInv /\ [Next]_vars => PanelsInv'
  BY PanelsKeep
<1> QED BY <1>1, <1>2, PTL DEF Spec

\* What the library panels show is the server's (PanelsConverge): prompts, tags, bookmarks
\* and sources, once their requests are answered, of any number, with any failures.
THEOREM LibraryConverges == Spec => []PanelsConverge
<1>1. ASSUME PanelsInv, Settled("prompts"), announced = 0 PROVE prompts = View(srvPrompts)
  <2>1. PromptsInv /\ ~missed /\ DOMAIN calls = {}
    BY <1>1 DEF PanelsInv, Settled
  <2> QED BY <1>1, <2>1 DEF PromptsInv
<1>2. ASSUME PanelsInv, Settled("tags")
      PROVE  /\ tags = Live /\ sessionTags = TagsOf(Open)
             /\ \A t \in Named(tags) \cap InitialExpanded : tagSessions[t] = srvTagged[t]
  <2>1. TagsInv /\ ~missed /\ DOMAIN calls = {} /\ Len(<<>>) = 0
    BY <1>2 DEF PanelsInv, Settled
  <2>2. Current(tags, tagSessions, sessionTags, 0, <<>>)
    BY <2>1 DEF TagsInv
  <2>3. \A t : ~ComingUnder(0, <<>>, t)
    BY <2>1 DEF ComingUnder
  <2>4. ~Coming(0, <<>>, Raises) /\ ~Coming(0, <<>>, LoadsTags) /\ ~Coming(0, <<>>, LoadsHeader)
    BY <2>1 DEF Coming
  <2> QED BY <2>2, <2>3, <2>4 DEF Current
<1>3. ASSUME PanelsInv, Settled("shelf") PROVE bookmarks = srvBookmarks /\ sources = srvSources /\ removing = None
  <2>1. ShelfInv /\ ~missed /\ DOMAIN calls = {}
    BY <1>3 DEF PanelsInv, Settled
  <2> QED BY <2>1 DEF ShelfInv, BookmarksInv, SourcesInv, RemovalInv
<1>4. PanelsInv => PanelsConverge
  BY <1>1, <1>2, <1>3 DEF PanelsConverge, PromptsConverge, TagsConverge, BookmarksConverge, SourcesConverge
<1> QED BY <1>4, PanelsHold, PTL

\* What the user chose in the session list and the tree is what the next page starts
\* from, and its settings are the server's once all is answered (ChoicesAreKept).
THEOREM ChoicesKept == Spec => []ChoicesAreKept
<1>1. ASSUME PanelsInv, part = "sidebar", Ordered, calls = <<>>, ~missed, ~raced
      PROVE  hideStale = srvSettings.hideStale /\ staleDays = srvSettings.staleDays
  <2>1. SettingsInv /\ DOMAIN calls = {} /\ Len(calls) = 0
    BY <1>1 DEF PanelsInv
  <2>2. LoadedOnce
    BY <1>1, <2>1 DEF SettingsInv, Loading
  <2> QED BY <1>1, <2>1, <2>2 DEF LoadedOnce, Agrees
<1>2. PanelsInv => ChoicesAreKept
  BY <1>1 DEF ChoicesAreKept, PanelsInv, KeptInv
<1> QED BY <1>2, PanelsHold, PTL

\* A file of the tree is selected whenever it shows one (SelectionIsVisible), whatever
\* files come and go, kinds are hidden and directories collapse.
THEOREM SelectionStays == Spec => []SelectionIsVisible
<1>1. PanelsInv => SelectionIsVisible
  BY DEF PanelsInv, TreeInv, SelectionShown, SelectionIsVisible
<1> QED BY <1>1, PanelsHold, PTL

\* Only the user opens a directory (ClosedStaysClosed).
THEOREM ClosedKept == Spec => ClosedStaysClosed
<1>1. [Next]_vars => [accesses' # accesses \/ visibility' # visibility =>
        \A d \in closedDirs : d \in ShownDirs(filesShown)' => d \in closedDirs']_vars
  BY ClosedStays
<1> QED BY <1>1, PTL DEF Spec, ClosedStaysClosed

-----------------------------------------------------------------------------
(* Lists of sessions                                                        *)

\* A list of sessions lists its sessions, which are known by their ids,
LEMMA SessionsLay ==
  ASSUME NEW list, IsSessionList(list)
  PROVE  /\ Lays(list, ToSet(list))
         /\ \A s \in ToSet(list) : s.id \in Nat /\ s.updated \in Nat
         /\ \A s, t \in ToSet(list) : s.id = t.id => s = t
<1>1. list \in Seq(ToSet(list))
  BY DEF IsSessionList
<1>2. /\ \A i \in DOMAIN list : list[i].id \in Nat /\ list[i].updated \in Nat
      /\ \A i, j \in DOMAIN list : list[i].id = list[j].id => i = j
  BY DEF IsSessionList
<1>3. \A x : x \in ToSet(list) <=> \E i \in DOMAIN list : list[i] = x
  BY DEF ToSet
<1>4. Lays(list, ToSet(list))
  BY <1>1, <1>2, <1>3 DEF Lays
<1> QED BY <1>2, <1>3, <1>4

\* and are found by them.
LEMMA SessionsById ==
  ASSUME NEW list, IsSessionList(list)
  PROVE  /\ Ids(list) \in SUBSET Nat /\ IsFiniteSet(Ids(list)) /\ Nil \notin Ids(list)
         /\ \A id \in Ids(list) : SessionOf(list, id) \in ToSet(list) /\ SessionOf(list, id).id = id
         /\ \A s \in ToSet(list) : s.id \in Ids(list) /\ SessionOf(list, s.id) = s
<1>1. /\ Lays(list, ToSet(list))
      /\ \A s \in ToSet(list) : s.id \in Nat /\ s.updated \in Nat
      /\ \A s, t \in ToSet(list) : s.id = t.id => s = t
  BY SessionsLay
<1>2. IsFiniteSet(ToSet(list))
  BY <1>1, LaysShape
<1>3. Ids(list) \in SUBSET Nat
  BY <1>1 DEF Ids
<1>4. IsFiniteSet(Ids(list))
  <2> DEFINE f == [s \in ToSet(list) |-> s.id]
  <2>1. f \in Surjection(ToSet(list), Ids(list))
    BY DEF Surjection, Ids
  <2> HIDE DEF f
  <2> QED BY <1>2, <2>1, FS_Surjection
<1>5. \A id \in Ids(list) : SessionOf(list, id) \in ToSet(list) /\ SessionOf(list, id).id = id
  BY DEF Ids, SessionOf
<1>6. \A s \in ToSet(list) : s.id \in Ids(list)
  BY DEF Ids
<1> QED BY <1>1, <1>3, <1>4, <1>5, <1>6, TreeAssumption

-----------------------------------------------------------------------------
(* Families                                                                 *)

\* The parent, if it is listed.
Upward(list) ==
  [x \in Ids(list) \cup {Nil} |->
     IF x \in Ids(list) /\ SessionOf(list, x).parent \in Ids(list) THEN SessionOf(list, x).parent ELSE Nil]

\* Ancestors by their number of generations, Nil beyond the first.
Ancestors(list, A) == Iterates(Upward(list), Ids(list) \cup {Nil}, A)

\* Everyone has ancestors, Nil beyond the first of them.
LEMMA AncestorsAre ==
  ASSUME NEW list, IsSessionList(list)
  PROVE  \E A : Ancestors(list, A)
<1>1. Upward(list) \in [Ids(list) \cup {Nil} -> Ids(list) \cup {Nil}]
  BY DEF Upward
<1> QED BY <1>1, Iteration DEF Ancestors

\* What is known of them: who has no parent that is listed is met once on the way up.
LEMMA AncestorFacts ==
  ASSUME NEW list, IsSessionList(list), NEW A, Ancestors(list, A)
  PROVE  /\ \A t \in Ids(list) : A[0][t] = t
         /\ \A n \in Nat : \A t \in Ids(list) :
              /\ A[n][t] \in Ids(list) \cup {Nil}
              /\ A[n + 1][t] = Upward(list)[A[n][t]]
         /\ \A m, n \in Nat : \A t \in Ids(list) : A[m][A[n][t]] = A[n + m][t]
         /\ \A m, n \in Nat : \A t \in Ids(list) : A[n][t] = Nil /\ n <= m => A[m][t] = Nil
         /\ \A r \in Ids(list) : Upward(list)[r] = Nil =>
              \A m, n \in Nat : \A t \in Ids(list) : A[m][t] = r /\ A[n][t] = r => m = n
<1> DEFINE V == Ids(list)
           f == Upward(list)
<1>1. /\ A \in [Nat -> [V \cup {Nil} -> V \cup {Nil}]]
      /\ \A x \in V \cup {Nil} : A[0][x] = x
      /\ \A n \in Nat : \A x \in V \cup {Nil} : A[n + 1][x] = f[A[n][x]]
  BY DEF Ancestors, Iterates
<1>2. /\ \A m, n \in Nat : \A x \in V \cup {Nil} : A[m][A[n][x]] = A[n + m][x]
      /\ \A z \in V \cup {Nil} : f[z] = z => \A m \in Nat : A[m][z] = z
  BY IteratesAdd DEF Ancestors
<1>3. f[Nil] = Nil
  BY SessionsById DEF Upward
<1> HIDE DEF V, f
<1>4. \A m \in Nat : A[m][Nil] = Nil
  BY <1>2, <1>3
<1>5. ASSUME NEW m \in Nat, NEW n \in Nat, NEW t \in V, A[n][t] = Nil, n <= m PROVE A[m][t] = Nil
  <2>1. m - n \in Nat /\ n + (m - n) = m
    BY <1>5
  <2>2. A[m - n][A[n][t]] = A[m][t]
    BY <1>2, <2>1
  <2> QED BY <1>4, <1>5, <2>1, <2>2
<1>6. ASSUME NEW r \in V, f[r] = Nil, NEW m \in Nat, NEW n \in Nat, NEW t \in V, A[m][t] = r, A[n][t] = r,
             m < n, Nil \notin V
      PROVE  FALSE
  <2>1. A[m + 1][t] = Nil
    BY <1>1, <1>6
  <2>2. m + 1 \in Nat /\ m + 1 <= n
    BY <1>6
  <2> QED BY <1>5, <1>6, <2>1, <2>2
<1>7. Nil \notin V
  BY SessionsById DEF V
<1>8. ASSUME NEW r \in V, f[r] = Nil, NEW m \in Nat, NEW n \in Nat, NEW t \in V, A[m][t] = r, A[n][t] = r
      PROVE  m = n
  <2>1. ~(m < n) /\ ~(n < m)
    BY <1>6, <1>7, <1>8
  <2> QED BY <2>1
<1>9. /\ \A t \in V : A[0][t] = t
      /\ \A n \in Nat : \A t \in V : A[n][t] \in V \cup {Nil} /\ A[n + 1][t] = f[A[n][t]]
      /\ \A m, n \in Nat : \A t \in V : A[m][A[n][t]] = A[n + m][t]
  <2>1. ASSUME NEW t \in V
        PROVE  /\ A[0][t] = t
               /\ \A n \in Nat : A[n][t] \in V \cup {Nil} /\ A[n + 1][t] = f[A[n][t]]
               /\ \A m, n \in Nat : A[m][A[n][t]] = A[n + m][t]
    <3>1. t \in V \cup {Nil}
      OBVIOUS
    <3>2. A[0][t] = t
      BY <1>1, <3>1
    <3>3. ASSUME NEW n \in Nat PROVE A[n][t] \in V \cup {Nil} /\ A[n + 1][t] = f[A[n][t]]
      BY <1>1, <3>1
    <3>4. ASSUME NEW m \in Nat, NEW n \in Nat PROVE A[m][A[n][t]] = A[n + m][t]
      BY <1>2, <3>1
    <3> QED BY <3>2, <3>3, <3>4
  <2> QED BY <2>1
<1>10. \A m, n \in Nat : \A t \in V : A[n][t] = Nil /\ n <= m => A[m][t] = Nil
  BY <1>5
<1>11. \A r \in V : f[r] = Nil =>
         \A m, n \in Nat : \A t \in V : A[m][t] = r /\ A[n][t] = r => m = n
  BY <1>8
<1> QED BY <1>9, <1>10, <1>11 DEF V, f

\* One turn of the loop of resolveFamilyRoot, and all of them.
Climbed(list, last) ==
  LET parent == SessionOf(list, last.at).parent
  IN IF parent \notin Ids(list) \ last.seen THEN last
     ELSE [at |-> parent, seen |-> last.seen \cup {parent}]

Climbs(list, id, g) ==
  g = [n \in 0..MaxFamilyDepth |-> IF n = 0 THEN [at |-> id, seen |-> {id}] ELSE Climbed(list, g[n - 1])]

\* A root is where the loop of resolveFamilyRoot ends.
LEMMA RootIsClimbed ==
  ASSUME NEW list, NEW id \in Ids(list)
  PROVE  \E g : /\ resolveFamilyRoot(list, id) = g[MaxFamilyDepth].at
                /\ g[0] = [at |-> id, seen |-> {id}]
                /\ \A n \in Nat : n + 1 <= MaxFamilyDepth => g[n + 1] = Climbed(list, g[n])
<1> DEFINE D == MaxFamilyDepth
           X == [at : Ids(list), seen : SUBSET Ids(list)]
           b == [at |-> id, seen |-> {id}]
           f == [x \in X |-> Climbed(list, x)]
           h == CHOOSE h : Climbs(list, id, h)
<1>1. f \in [X -> X] /\ b \in X
  BY DEF Climbed
<1>2. D \in Nat
  BY TreeAssumption
<1>3. \A x \in X : f[x] = Climbed(list, x)
  OBVIOUS
<1> HIDE DEF f, X, b, D
<1>4. \E g : Climbs(list, id, g)
  <2>1. PICK g : Recurses(f, b, D, g) /\ g \in [0..D -> X]
    BY <1>1, <1>2, Recursion
  <2>2. g = [i \in 0..D |-> IF i = 0 THEN b ELSE f[g[i - 1]]]
    BY <2>1 DEF Recurses
  <2>3. \A i \in 0..D : i # 0 => g[i - 1] \in X
    <3>1. \A i \in 0..D : i # 0 => i - 1 \in 0..D
      BY <1>2
    <3> QED BY <2>1, <3>1
  <2>4. Climbs(list, id, g)
    BY <1>3, <2>2, <2>3 DEF Climbs, b, D
  <2> QED BY <2>4
<1>5. Climbs(list, id, h)
  BY <1>4
<1>6. resolveFamilyRoot(list, id) = h[D].at
  BY DEF resolveFamilyRoot, Climbs, Climbed, D
<1> HIDE DEF h
<1>7. \A n \in 0..D : h[n] = IF n = 0 THEN b ELSE Climbed(list, h[n - 1])
  BY <1>5 DEF Climbs, D, b
<1>8. h[0] = b
  BY <1>2, <1>7
<1>9. ASSUME NEW n \in Nat, n + 1 <= D PROVE h[n + 1] = Climbed(list, h[n])
  <2>1. PICK j : j = n + 1
    OBVIOUS
  <2>2. j \in 0..D /\ j # 0 /\ j - 1 = n
    BY <1>2, <1>9, <2>1
  <2> QED BY <1>7, <2>1, <2>2
<1> QED BY <1>6, <1>8, <1>9 DEF b, D

\* The root is an ancestor, and so near.
LEMMA RootIsAncestor ==
  ASSUME NEW list, IsSessionList(list), NEW A, Ancestors(list, A), NEW t \in Ids(list)
  PROVE  \E m \in 0..MaxFamilyDepth : resolveFamilyRoot(list, t) = A[m][t] /\ A[m][t] \in Ids(list)
<1> DEFINE D == MaxFamilyDepth
           parent(x) == SessionOf(list, x).parent
<1>1. PICK g : /\ resolveFamilyRoot(list, t) = g[D].at
               /\ g[0] = [at |-> t, seen |-> {t}]
               /\ \A n \in Nat : n + 1 <= D => g[n + 1] = Climbed(list, g[n])
  BY RootIsClimbed, SMTT(30)
<1>2. D \in Nat
  BY TreeAssumption
<1>3. /\ A[0][t] = t
      /\ \A n \in Nat : A[n + 1][t] = Upward(list)[A[n][t]]
  BY AncestorFacts
<1> DEFINE V == {n \in Nat : n <= D => \E m \in 0..n : g[n].at = A[m][t] /\ A[m][t] \in Ids(list)}
<1>4. 0 \in V
  <2>1. 0 \in 0..0 /\ g[0].at = A[0][t] /\ A[0][t] \in Ids(list)
    BY <1>1, <1>3
  <2> QED BY <2>1
<1>5. ASSUME NEW n \in V PROVE n + 1 \in V
  <2>1. n \in Nat /\ n + 1 \in Nat
    OBVIOUS
  <2>2. ASSUME n + 1 <= D PROVE \E m \in 0..(n + 1) : g[n + 1].at = A[m][t] /\ A[m][t] \in Ids(list)
    <3>1. PICK m \in 0..n : g[n].at = A[m][t] /\ A[m][t] \in Ids(list)
      BY <1>2, <2>1, <2>2
    <3> HIDE DEF V
    <3>2. n + 1 \in 0..D /\ n + 1 # 0 /\ n + 1 - 1 = n /\ m \in Nat /\ m + 1 \in 0..(n + 1) /\ m \in 0..(n + 1)
      BY <1>2, <2>1, <2>2
    <3>3. PICK k : k = n + 1
      OBVIOUS
    <3>4. g[k] = IF parent(g[n].at) \notin Ids(list) \ g[n].seen THEN g[n]
                 ELSE [at |-> parent(g[n].at), seen |-> g[n].seen \cup {parent(g[n].at)}]
      BY <1>1, <2>1, <2>2, <3>3 DEF Climbed
    <3>5. CASE parent(g[n].at) \notin Ids(list) \ g[n].seen
      BY <3>1, <3>2, <3>3, <3>4, <3>5
    <3>6. CASE parent(g[n].at) \in Ids(list) \ g[n].seen
      <4>1. g[k].at = parent(A[m][t])
        BY <3>1, <3>4, <3>6
      <4>2. Upward(list)[A[m][t]] = parent(A[m][t]) /\ parent(A[m][t]) \in Ids(list)
        BY <3>1, <3>6 DEF Upward
      <4>3. A[m + 1][t] = parent(A[m][t])
        BY <1>3, <3>2, <4>2
      <4> QED BY <3>2, <3>3, <4>1, <4>2, <4>3
    <3> QED BY <3>5, <3>6
  <2> QED BY <2>1, <2>2
<1>6. V = Nat
  <2> HIDE DEF V
  <2>1. V \in SUBSET Nat
    BY DEF V
  <2> QED BY <1>4, <1>5, <2>1, NatInd
<1>7. D \in V
  BY <1>2, <1>6
<1>8. \E m \in 0..D : g[D].at = A[m][t] /\ A[m][t] \in Ids(list)
  BY <1>2, <1>7
<1> QED BY <1>1, <1>8

\* An ancestor so near whose parent is not listed is the root.
LEMMA AncestorIsRoot ==
  ASSUME NEW list, IsSessionList(list), NEW A, Ancestors(list, A), NEW t \in Ids(list),
         NEW r \in Ids(list), Upward(list)[r] = Nil, NEW k \in 0..MaxFamilyDepth, A[k][t] = r
  PROVE  resolveFamilyRoot(list, t) = r
<1> DEFINE D == MaxFamilyDepth
           parent(x) == SessionOf(list, x).parent
<1>1. PICK g : /\ resolveFamilyRoot(list, t) = g[D].at
               /\ g[0] = [at |-> t, seen |-> {t}]
               /\ \A n \in Nat : n + 1 <= D => g[n + 1] = Climbed(list, g[n])
  BY RootIsClimbed
<1>2. D \in Nat /\ k \in Nat /\ k <= D /\ Nil \notin Ids(list)
  BY TreeAssumption, SessionsById
<1>3. /\ A[0][t] = t
      /\ \A n \in Nat : A[n][t] \in Ids(list) \cup {Nil} /\ A[n + 1][t] = Upward(list)[A[n][t]]
      /\ \A m, n \in Nat : A[m][A[n][t]] = A[n + m][t]
      /\ \A m, n \in Nat : A[n][t] = Nil /\ n <= m => A[m][t] = Nil
      /\ \A m, n \in Nat : A[m][t] = r /\ A[n][t] = r => m = n
  <2>1. \A m, n \in Nat : A[m][t] = r /\ A[n][t] = r => m = n
    BY AncestorFacts, SMTT(30)
  <2>2. A[0][t] = t
    BY AncestorFacts
  <2>3. \A n \in Nat : A[n][t] \in Ids(list) \cup {Nil} /\ A[n + 1][t] = Upward(list)[A[n][t]]
    BY AncestorFacts
  <2>4. ASSUME NEW m \in Nat, NEW n \in Nat PROVE A[m][A[n][t]] = A[n + m][t]
    <3>1. \A i, j \in Nat : \A u \in Ids(list) : A[i][A[j][u]] = A[j + i][u]
      BY AncestorFacts
    <3> QED BY <3>1
  <2>5. \A m, n \in Nat : A[n][t] = Nil /\ n <= m => A[m][t] = Nil
    BY AncestorFacts
  <2> QED BY <2>1, <2>2, <2>3, <2>4, <2>5
<1>4. \A x \in Ids(list) : Upward(list)[x] # Nil => parent(x) = Upward(list)[x] /\ parent(x) \in Ids(list)
  BY DEF Upward
<1>5. parent(r) \notin Ids(list)
  BY <1>2 DEF Upward
<1> HIDE DEF parent
<1>6. \A n \in Nat : n + 1 <= D =>
        g[n + 1] = IF parent(g[n].at) \notin Ids(list) \ g[n].seen THEN g[n]
                   ELSE [at |-> parent(g[n].at), seen |-> g[n].seen \cup {parent(g[n].at)}]
  BY <1>1 DEF Climbed, parent
<1> DEFINE V == {n \in Nat : n <= k => g[n].at = A[n][t] /\ g[n].seen = {A[j][t] : j \in 0..n}}
<1>7. 0 \in V
  <2>1. g[0].at = A[0][t] /\ g[0].seen = {A[0][t]}
    BY <1>1, <1>3
  <2>2. \A j : j \in 0..0 <=> j = 0
    OBVIOUS
  <2> QED BY <2>1, <2>2
<1>8. ASSUME NEW n \in V PROVE n + 1 \in V
  <2>1. n \in Nat /\ n + 1 \in Nat
    OBVIOUS
  <2>2. ASSUME n + 1 <= k
        PROVE  g[n + 1].at = A[n + 1][t] /\ g[n + 1].seen = {A[j][t] : j \in 0..(n + 1)}
    <3>1. g[n].at = A[n][t] /\ g[n].seen = {A[j][t] : j \in 0..n}
      BY <1>2, <2>1, <2>2
    <3> HIDE DEF V
    <3>2. n <= k /\ n + 1 <= D
      BY <1>2, <2>1, <2>2
    <3>3. A[n][t] \in Ids(list) /\ A[n + 1][t] \in Ids(list)
      BY <1>2, <1>3, <2>1, <2>2, <3>2
    <3>4. parent(A[n][t]) = A[n + 1][t]
      <4>1. Upward(list)[A[n][t]] = A[n + 1][t]
        BY <1>3, <2>1
      <4>2. Upward(list)[A[n][t]] # Nil
        BY <1>2, <3>3, <4>1
      <4> QED BY <1>4, <3>3, <4>1, <4>2
    <3>5. ASSUME NEW j \in 0..n, A[j][t] = A[n + 1][t] PROVE FALSE
      <4>1. PICK d \in Nat : n + 1 + d = k
        <5>1. k - (n + 1) \in Nat /\ n + 1 + (k - (n + 1)) = k
          BY <1>2, <2>1, <2>2
        <5> QED BY <5>1
      <4>2. A[d][A[n + 1][t]] = r
        BY <1>3, <2>1, <4>1
      <4>3. A[d][A[j][t]] = A[j + d][t] /\ j \in Nat /\ j + d \in Nat
        BY <1>3
      <4>4. j + d = k
        BY <1>2, <1>3, <3>5, <4>2, <4>3
      <4> QED BY <2>1, <4>1, <4>3, <4>4
    <3>6. A[n + 1][t] \in Ids(list) \ g[n].seen
      BY <3>1, <3>3, <3>5
    <3>7. /\ g[n + 1].at = A[n + 1][t]
          /\ g[n + 1].seen = g[n].seen \cup {A[n + 1][t]}
      <4>1. parent(g[n].at) = A[n + 1][t]
        BY <3>1, <3>4
      <4>2. g[n + 1] = [at |-> A[n + 1][t], seen |-> g[n].seen \cup {A[n + 1][t]}]
        BY <1>6, <2>1, <3>2, <3>6, <4>1
      <4> QED BY <4>2
    <3>8. \A j : j \in 0..(n + 1) <=> j \in 0..n \/ j = n + 1
      BY <2>1
    <3> QED BY <3>1, <3>7, <3>8
  <2> QED BY <2>1, <2>2
<1>9. V = Nat
  <2> HIDE DEF V
  <2>1. V \in SUBSET Nat
    BY DEF V
  <2> QED BY <1>7, <1>8, <2>1, NatInd
<1>10. g[k].at = r
  BY <1>2, <1>9
<1> DEFINE W == {d \in Nat : k + d <= D => g[k + d].at = r}
<1>11. 0 \in W
  BY <1>2, <1>10
<1>12. ASSUME NEW d \in W PROVE d + 1 \in W
  <2>1. d \in Nat /\ d + 1 \in Nat
    OBVIOUS
  <2>2. ASSUME k + (d + 1) <= D PROVE g[k + (d + 1)].at = r
    <3>1. g[k + d].at = r
      BY <1>2, <2>1, <2>2
    <3> HIDE DEF W
    <3>2. k + d \in Nat /\ k + d + 1 <= D /\ k + (d + 1) = k + d + 1
      BY <1>2, <2>1, <2>2
    <3>3. g[k + d + 1] = g[k + d]
      BY <1>5, <1>6, <3>1, <3>2
    <3> QED BY <3>1, <3>2, <3>3
  <2> QED BY <2>1, <2>2
<1>13. W = Nat
  <2> HIDE DEF W
  <2>1. W \in SUBSET Nat
    BY DEF W
  <2> QED BY <1>11, <1>12, <2>1, NatInd
<1>14. D - k \in W /\ k + (D - k) = D
  <2> HIDE DEF W
  <2> QED BY <1>2, <1>13
<1>15. g[D].at = r
  BY <1>2, <1>14
<1> QED BY <1>1, <1>15

\* The children of a session, each once.
LEMMA ChildrenLay ==
  ASSUME NEW list, IsSessionList(list), NEW id
  PROVE  Lays(ChildrenOf(list, id), {c \in Ids(list) : SessionOf(list, c).parent = id})
<1> DEFINE S == {s.id : s \in {x \in ToSet(list) : x.parent = id}}
           rank == [x \in S |-> x]
           L == RankOrder(S, rank)
<1>1. S = {c \in Ids(list) : SessionOf(list, c).parent = id}
  BY SessionsById
<1>2. S \in SUBSET Nat /\ IsFiniteSet(S)
  <2>1. S \in SUBSET Ids(list)
    BY <1>1
  <2> HIDE DEF S
  <2> QED BY <2>1, SessionsById, FS_Subset
<1>3. ChildrenOf(list, id) = Arranged(S, L)
  <2>1. ChildrenOf(list, id) = Sorted(S, LAMBDA a, b : a < b)
    BY DEF ChildrenOf
  <2> HIDE DEF S
  <2>2. \A x \in S : {y \in S : y < x} = {y \in S : <<y, x>> \in L}
    BY DEF RankOrder
  <2> HIDE DEF L
  <2>3. [x \in S |-> Cardinality({y \in S : y < x})] = [x \in S |-> Cardinality({y \in S : <<y, x>> \in L})]
    BY <2>2
  <2>4. PICK before : before = [x \in S |-> Cardinality({y \in S : y < x})]
    OBVIOUS
  <2>5. ChildrenOf(list, id) = [k \in 1..Cardinality(S) |-> CHOOSE x \in S : before[x] = k - 1]
    BY <2>1, <2>4 DEF Sorted
  <2>6. Arranged(S, L) = [k \in 1..Cardinality(S) |-> CHOOSE x \in S : before[x] = k - 1]
    <3>1. before = [x \in S |-> Cardinality({y \in S : <<y, x>> \in L})]
      BY <2>3, <2>4
    <3> QED BY <3>1 DEF Arranged
  <2> QED BY <2>5, <2>6
<1>4. \A x \in S : rank[x] = x
  OBVIOUS
<1> HIDE DEF S, rank
<1>5. IsOrder(S, L)
  BY <1>2, <1>4, RankIsOrder
<1> QED BY <1>1, <1>2, <1>3, <1>5, ArrangedLays

\* One level more of the walk down, and all of them.
Deeper(list, w) ==
  [id \in Ids(list) |->
     <<id>> \o FlattenSeq([k \in DOMAIN ChildrenOf(list, id) |-> w[ChildrenOf(list, id)[k]]])]

Walks(list, g) ==
  g = [levels \in 0..(MaxFamilyDepth + 1) |->
         [id \in Ids(list) |->
            IF levels = 0 THEN <<>>
            ELSE <<id>> \o FlattenSeq([k \in DOMAIN ChildrenOf(list, id) |->
                                         g[levels - 1][ChildrenOf(list, id)[k]]])]]

\* A level more is a sequence of sessions again.
LEMMA DeeperType ==
  ASSUME NEW list, IsSessionList(list), NEW w \in [Ids(list) -> Seq(Ids(list))]
  PROVE  Deeper(list, w) \in [Ids(list) -> Seq(Ids(list))]
<1> SUFFICES ASSUME NEW id \in Ids(list)
             PROVE  <<id>> \o FlattenSeq([k \in DOMAIN ChildrenOf(list, id) |-> w[ChildrenOf(list, id)[k]]])
                      \in Seq(Ids(list))
  BY DEF Deeper
<1> DEFINE c == ChildrenOf(list, id)
           each == [k \in DOMAIN c |-> w[c[k]]]
<1> HIDE DEF c
<1>1. Len(c) \in Nat /\ DOMAIN c = 1..Len(c) /\ \A k \in 1..Len(c) : c[k] \in Ids(list)
  <2>1. Lays(c, {d \in Ids(list) : SessionOf(list, d).parent = id})
    BY ChildrenLay DEF c
  <2> QED BY <2>1, LaysShape
<1>2. each \in [1..Len(c) -> Seq(Ids(list))]
  BY <1>1
<1> HIDE DEF each
<1>3. each \in Seq(Seq(Ids(list)))
  BY <1>1, <1>2, IsSequence
<1>4. FlattenSeq(each) \in Seq(Ids(list))
  BY <1>3, FlattenType
<1>5. <<id>> \in Seq(Ids(list))
  OBVIOUS
<1>6. <<id>> \o FlattenSeq(each) \in Seq(Ids(list))
  <2> DEFINE a == <<id>>
             b == FlattenSeq(each)
  <2>1. a \in Seq(Ids(list)) /\ b \in Seq(Ids(list))
    BY <1>4, <1>5
  <2> HIDE DEF a, b
  <2>2. a \o b \in Seq(Ids(list))
    BY <2>1, ConcatProperties
  <2> QED BY <2>2 DEF a, b
<1> QED BY <1>6 DEF each, c

\* Walk is the last of its levels.
LEMMA WalkIs ==
  ASSUME NEW list, IsSessionList(list), NEW root
  PROVE  \E g : /\ Walk(list, root) = g[MaxFamilyDepth + 1][root]
                /\ g[0] = [id \in Ids(list) |-> <<>>]
                /\ \A n \in Nat : n <= MaxFamilyDepth => g[n + 1] = Deeper(list, g[n])
<1> DEFINE D == MaxFamilyDepth + 1
           X == [Ids(list) -> Seq(Ids(list))]
           b == [id \in Ids(list) |-> <<>>]
           f == [w \in X |-> Deeper(list, w)]
           h == CHOOSE h : Walks(list, h)
<1>1. b \in X
  OBVIOUS
<1>2. f \in [X -> X]
  BY DeeperType
<1>3. D \in Nat
  BY TreeAssumption
<1>4. \A w \in X : f[w] = Deeper(list, w)
  OBVIOUS
<1> HIDE DEF f, X, b, D
<1>5. \E g : Walks(list, g)
  <2>1. PICK g : Recurses(f, b, D, g) /\ g \in [0..D -> X]
    BY <1>1, <1>2, <1>3, Recursion
  <2>2. g = [i \in 0..D |-> IF i = 0 THEN b ELSE f[g[i - 1]]]
    BY <2>1 DEF Recurses
  <2>3. \A i \in 0..D : i # 0 => g[i - 1] \in X
    <3>1. \A i \in 0..D : i # 0 => i - 1 \in 0..D
      BY <1>3
    <3> QED BY <2>1, <3>1
  <2>4. \A i \in 0..D : g[i] = [id \in Ids(list) |->
            IF i = 0 THEN <<>>
            ELSE <<id>> \o FlattenSeq([k \in DOMAIN ChildrenOf(list, id) |->
                                         g[i - 1][ChildrenOf(list, id)[k]]])]
    <3>1. ASSUME NEW i \in 0..D, i = 0 PROVE g[i] = [id \in Ids(list) |-> <<>>]
      BY <2>2, <3>1 DEF b
    <3>2. ASSUME NEW i \in 0..D, i # 0 PROVE g[i] = Deeper(list, g[i - 1])
      BY <1>4, <2>2, <2>3, <3>2
    <3> QED BY <3>1, <3>2 DEF Deeper
  <2>5. g = [i \in 0..D |-> g[i]]
    BY <2>2
  <2>6. Walks(list, g)
    BY <2>4, <2>5 DEF Walks, D
  <2> QED BY <2>6
<1>6. Walks(list, h)
  BY <1>5
<1>7. Walk(list, root) = h[D][root]
  BY DEF Walk, Walks, D
<1> HIDE DEF h
<1>8. \A n \in 0..D : h[n] = [id \in Ids(list) |->
            IF n = 0 THEN <<>>
            ELSE <<id>> \o FlattenSeq([k \in DOMAIN ChildrenOf(list, id) |->
                                         h[n - 1][ChildrenOf(list, id)[k]]])]
  BY <1>6 DEF Walks, D
<1>9. h[0] = [id \in Ids(list) |-> <<>>]
  <2>1. 0 \in 0..D
    BY <1>3
  <2> QED BY <1>8, <2>1
<1>10. ASSUME NEW n \in Nat, n <= MaxFamilyDepth PROVE h[n + 1] = Deeper(list, h[n])
  <2>1. PICK j : j = n + 1
    OBVIOUS
  <2>2. j \in 0..D /\ j # 0 /\ j - 1 = n
    BY <1>10, <2>1, TreeAssumption DEF D
  <2> QED BY <1>8, <2>1, <2>2 DEF Deeper
<1> QED BY <1>7, <1>9, <1>10 DEF D

\* The walk has every descendant once, on so many levels, of whom has one ancestor at
\* most that is not listed a child.
LEMMA WalkLays ==
  ASSUME NEW list, IsSessionList(list), NEW A, Ancestors(list, A),
         NEW r \in Ids(list), Upward(list)[r] = Nil
  PROVE  Lays(Walk(list, r), {t \in Ids(list) : \E n \in 0..MaxFamilyDepth : A[n][t] = r})
         /\ Walk(list, r)[1] = r
<1> DEFINE D == MaxFamilyDepth
           V == Ids(list)
           Below(l, id) == {t \in V : \E n \in Nat : n < l /\ A[n][t] = id}
<1>1. PICK g : /\ Walk(list, r) = g[D + 1][r]
               /\ g[0] = [id \in V |-> <<>>]
               /\ \A n \in Nat : n <= D => g[n + 1] = Deeper(list, g[n])
  BY WalkIs
<1>2. D \in Nat /\ Nil \notin V
  BY TreeAssumption, SessionsById
<1>3. /\ \A t \in V : A[0][t] = t
      /\ \A n \in Nat : \A t \in V : A[n][t] \in V \cup {Nil} /\ A[n + 1][t] = Upward(list)[A[n][t]]
  <2>1. \A t \in V : A[0][t] = t
    BY AncestorFacts
  <2>2. \A n \in Nat : \A t \in V : A[n][t] \in V \cup {Nil} /\ A[n + 1][t] = Upward(list)[A[n][t]]
    BY AncestorFacts
  <2> QED BY <2>1, <2>2
<1>4. \A m, n \in Nat : \A t \in V : A[m][A[n][t]] = A[n + m][t]
  <2>1. ASSUME NEW m \in Nat, NEW n \in Nat PROVE \A t \in V : A[m][A[n][t]] = A[n + m][t]
    <3>1. \A i, j \in Nat : \A u \in Ids(list) : A[i][A[j][u]] = A[j + i][u]
      BY AncestorFacts
    <3> QED BY <3>1
  <2> QED BY <2>1
<1>5. \A m, n \in Nat : \A t \in V : A[m][t] = r /\ A[n][t] = r => m = n
  BY AncestorFacts
<1>6. \A c, id \in V : SessionOf(list, c).parent = id <=> Upward(list)[c] = id
  BY <1>2 DEF Upward
<1>7. \A id \in V : Lays(ChildrenOf(list, id), {c \in V : Upward(list)[c] = id})
  <2>1. ASSUME NEW id \in V PROVE {c \in V : SessionOf(list, c).parent = id} = {c \in V : Upward(list)[c] = id}
    BY <1>6
  <2> QED BY <2>1, ChildrenLay
<1> HIDE DEF V
<1> DEFINE Reaches(id) == \E k \in Nat : A[k][id] = r
           W == {l \in Nat : l <= D + 1 => \A id \in V : Reaches(id) =>
                             Lays(g[l][id], Below(l, id)) /\ (l # 0 => g[l][id][1] = id)}
<1>8. 0 \in W
  <2>1. ASSUME NEW id \in V PROVE Lays(g[0][id], Below(0, id))
    <3>1. g[0][id] = <<>> /\ Below(0, id) = {}
      BY <1>1
    <3> HIDE DEF Below
    <3> QED BY <3>1, LaysFew
  <2> QED BY <2>1
<1>9. ASSUME NEW l \in W PROVE l + 1 \in W
  <2>1. l \in Nat /\ l + 1 \in Nat
    OBVIOUS
  <2>2. ASSUME l + 1 <= D + 1, NEW id \in V, Reaches(id) 
        PROVE  Lays(g[l + 1][id], Below(l + 1, id)) /\ g[l + 1][id][1] = id
    <3>1. l <= D /\ \A c \in V : Reaches(c) => Lays(g[l][c], Below(l, c))
      <4>1. l <= D /\ l <= D + 1
        BY <1>2, <2>1, <2>2
      <4> HIDE DEF Reaches, Below
      <4> QED BY <4>1
    <3> HIDE DEF W
    <3> DEFINE c == ChildrenOf(list, id)
               C == {x \in V : Upward(list)[x] = id}
               each == [k \in 1..Len(c) |-> g[l][c[k]]]
               piece == [k \in 1..Len(c) |-> Below(l, c[k])]
    <3>2. g[l + 1][id] = <<id>> \o FlattenSeq([k \in DOMAIN c |-> g[l][c[k]]])
      BY <1>1, <2>1, <3>1 DEF Deeper, V
    <3>3. /\ Lays(c, C) /\ Len(c) \in Nat /\ DOMAIN c = 1..Len(c) /\ \A k \in 1..Len(c) : c[k] \in C
          /\ \A i, j \in 1..Len(c) : c[i] = c[j] => i = j
          /\ \A x \in C : \E k \in 1..Len(c) : c[k] = x
      <4>1. Lays(c, C)
        BY <1>7
      <4> HIDE DEF c, C
      <4>2. Len(c) \in Nat /\ DOMAIN c = 1..Len(c) /\ \A k \in 1..Len(c) : c[k] \in C
        BY <4>1, LaysShape
      <4> QED BY <4>1, <4>2 DEF Lays
    <3>4. PICK k \in Nat : A[k][id] = r
      BY <2>2
    <3>5. \A n \in Nat : \A t \in V : \A x \in C : A[n][t] = x => A[n + 1][t] = id
      BY <1>3
    <3>6. \A n \in Nat : \A t \in V : A[n][t] = id => A[n + k][t] = r
      <4>1. \A n \in Nat : \A t \in V : A[k][A[n][t]] = A[n + k][t]
        BY <1>4, <3>4
      <4> QED BY <3>4, <4>1
    <3>7. \A m, n \in Nat : \A t \in V : A[m][t] = id /\ A[n][t] = id => m = n
      <4>1. \A m, n \in Nat : m + k = n + k => m = n
        BY <3>4
      <4>2. \A m \in Nat : m + k \in Nat
        BY <3>4
      <4> QED BY <1>5, <3>6, <4>1, <4>2
    <3>8. \A x \in C : x \in V /\ Reaches(x)
      <4>1. ASSUME NEW x \in C PROVE Reaches(x)
        <5>1. A[1][x] = id
          <6>1. A[0][x] = x /\ 0 + 1 = 1
            BY <1>3
          <6> QED BY <3>5, <6>1
        <5>2. A[1 + k][x] = r /\ 1 + k \in Nat
          BY <3>4, <3>6, <5>1
        <5> QED BY <5>2
      <4> QED BY <4>1
    <3>9. \A x, y \in C : x # y => Below(l, x) \cap Below(l, y) = {}
      <4>1. ASSUME NEW x \in C, NEW y \in C, NEW t \in V, NEW m \in Nat, NEW n \in Nat,
                   A[m][t] = x, A[n][t] = y
            PROVE  x = y
        <5>1. A[m + 1][t] = id /\ A[n + 1][t] = id
          BY <3>5, <4>1
        <5>2. m + 1 = n + 1
          BY <3>7, <5>1
        <5> QED BY <4>1, <5>2
      <4> QED BY <4>1
    <3>10. id \notin UNION {Below(l, x) : x \in C}
      <4>1. ASSUME NEW x \in C, NEW n \in Nat, A[n][id] = x PROVE FALSE
        <5>1. A[n + 1][id] = id /\ A[0][id] = id
          BY <1>3, <3>5, <4>1
        <5>2. n + 1 = 0
          BY <3>7, <5>1
        <5> QED BY <5>2
      <4> QED BY <4>1
    <3>11. Below(l + 1, id) = {id} \cup UNION {Below(l, x) : x \in C}
      <4>1. ASSUME NEW t \in Below(l + 1, id) PROVE t \in {id} \cup UNION {Below(l, x) : x \in C}
        <5>1. PICK n \in Nat : n < l + 1 /\ A[n][t] = id
          OBVIOUS
        <5>2. CASE n = 0
          BY <1>3, <5>1, <5>2
        <5>3. CASE n # 0
          <6>1. PICK m \in Nat : n = m + 1 /\ m < l
            <7>1. n - 1 \in Nat /\ n = n - 1 + 1 /\ n - 1 < l
              BY <2>1, <5>1, <5>3
            <7> QED BY <7>1
          <6>2. Upward(list)[A[m][t]] = id /\ A[m][t] \in V \cup {Nil}
            BY <1>3, <5>1, <6>1
          <6>3. A[m][t] # Nil
            <7>1. Upward(list)[Nil] = Nil
              BY <1>2 DEF Upward, V
            <7> QED BY <1>2, <6>2, <7>1
          <6>4. A[m][t] \in C
            BY <6>2, <6>3
          <6>5. t \in Below(l, A[m][t])
            BY <6>1
          <6> QED BY <6>4, <6>5
        <5> QED BY <5>2, <5>3
      <4>2. id \in Below(l + 1, id)
        <5>1. 0 < l + 1 /\ A[0][id] = id /\ 0 \in Nat
          BY <1>3, <2>1
        <5> QED BY <5>1
      <4>3. ASSUME NEW x \in C, NEW t \in Below(l, x) PROVE t \in Below(l + 1, id)
        <5>1. PICK n \in Nat : n < l /\ A[n][t] = x
          OBVIOUS
        <5>2. n + 1 \in Nat /\ n + 1 < l + 1 /\ A[n + 1][t] = id
          BY <2>1, <3>5, <5>1
        <5> QED BY <5>2
      <4> QED BY <4>1, <4>2, <4>3
    <3> HIDE DEF Below, c, C
    <3>12. \A i \in 1..Len(c) : Lays(each[i], piece[i])
      <4>1. \A i \in 1..Len(c) : Reaches(c[i]) /\ c[i] \in V
        BY <3>3, <3>8
      <4> HIDE DEF Reaches
      <4> QED BY <3>1, <4>1
    <3>13. \A i, j \in 1..Len(c) : i # j => piece[i] \cap piece[j] = {}
      BY <3>3, <3>9
    <3>14. UNION {piece[i] : i \in 1..Len(c)} = UNION {Below(l, x) : x \in C}
      BY <3>3
    <3>15. each = [i \in 1..Len(c) |-> each[i]] /\ [i \in DOMAIN c |-> g[l][c[i]]] = each
      BY <3>3
    <3> HIDE DEF each, piece
    <3>16. Lays(FlattenSeq(each), UNION {piece[i] : i \in 1..Len(c)})
      BY <3>3, <3>12, <3>13, <3>15, LaysFlatten, SMTT(30)
    <3>17. Lays(<<id>>, {id})
      BY LaysFew
    <3>18. {id} \cap UNION {Below(l, x) : x \in C} = {}
      BY <3>10
    <3>19. /\ Lays(<<id>> \o FlattenSeq(each), {id} \cup UNION {Below(l, x) : x \in C})
           /\ (<<id>> \o FlattenSeq(each))[1] = id
      <4> DEFINE a == <<id>>
                 b == FlattenSeq(each)
                 S == {id}
                 T == UNION {Below(l, x) : x \in C}
      <4>1. Lays(a, S) /\ Lays(b, T) /\ S \cap T = {}
        BY <3>14, <3>16, <3>17, <3>18
      <4> HIDE DEF a, b, S, T
      <4>2. Lays(a \o b, S \cup T) /\ \A i \in 1..Len(a) : (a \o b)[i] = a[i]
        BY <4>1, LaysConcat
      <4>3. Len(a) = 1 /\ a[1] = id
        BY DEF a
      <4>4. (a \o b)[1] = id
        BY <4>2, <4>3
      <4> QED BY <4>2, <4>4 DEF a, b, S, T
    <3> QED BY <3>2, <3>11, <3>15, <3>19
  <2> QED BY <2>1, <2>2
<1>10. W = Nat
  <2> HIDE DEF W
  <2>1. W \in SUBSET Nat
    BY DEF W
  <2> QED BY <1>8, <1>9, <2>1, NatInd
<1>11. r \in V /\ Reaches(r)
  <2>1. r \in V /\ A[0][r] = r /\ 0 \in Nat
    BY <1>3 DEF V
  <2> QED BY <2>1
<1>12. D + 1 \in W
  <2> HIDE DEF W
  <2> QED BY <1>2, <1>10
<1>13. Lays(g[D + 1][r], Below(D + 1, r)) /\ g[D + 1][r][1] = r
  <2>1. D + 1 <= D + 1 /\ D + 1 # 0
    BY <1>2
  <2> HIDE DEF Reaches, Below
  <2> QED BY <1>11, <1>12, <2>1
<1>14. Below(D + 1, r) = {t \in V : \E n \in 0..D : A[n][t] = r}
  <2>1. \A n : n \in Nat /\ n < D + 1 <=> n \in 0..D
    BY <1>2
  <2> QED BY <2>1
<1> QED BY <1>1, <1>13, <1>14 DEF V

\* The family of a session is everyone of its root.
LEMMA FamilyIsWhole ==
  ASSUME NEW list, IsSessionList(list), NEW id \in Ids(list),
         SessionOf(list, resolveFamilyRoot(list, id)).parent = Nil
  PROVE  LET root == resolveFamilyRoot(list, id)
             family == activeSessionFamily(list, id)
         IN  /\ IsPermutation(family, {t \in Ids(list) : resolveFamilyRoot(list, t) = root})
             /\ family[1] = root
<1> DEFINE root == resolveFamilyRoot(list, id)
           S == {t \in Ids(list) : resolveFamilyRoot(list, t) = root}
<1>1. PICK A : Ancestors(list, A)
  BY AncestorsAre
<1>2. \A t \in Ids(list) : \E m \in 0..MaxFamilyDepth : resolveFamilyRoot(list, t) = A[m][t] /\ A[m][t] \in Ids(list)
  BY <1>1, RootIsAncestor
<1>3. root \in Ids(list)
  BY <1>2
<1>4. Upward(list)[root] = Nil
  <2> HIDE DEF root
  <2>1. SessionOf(list, root).parent = Nil
    BY DEF root
  <2> QED BY <1>3, <2>1, SessionsById DEF Upward
<1>5. \A t \in Ids(list) : \A k \in 0..MaxFamilyDepth : A[k][t] = root => resolveFamilyRoot(list, t) = root
  <2> HIDE DEF root
  <2> QED BY <1>1, <1>3, <1>4, AncestorIsRoot
<1>6. S = {t \in Ids(list) : \E n \in 0..MaxFamilyDepth : A[n][t] = root}
  <2>1. ASSUME NEW t \in S PROVE \E n \in 0..MaxFamilyDepth : A[n][t] = root
    BY <1>2
  <2> QED BY <1>5, <2>1
<1>7. activeSessionFamily(list, id) = Walk(list, root)
  BY <1>3 DEF activeSessionFamily, buildSessionFamily
<1> HIDE DEF root
<1>8. Lays(Walk(list, root), S) /\ Walk(list, root)[1] = root
  BY <1>1, <1>3, <1>4, <1>6, WalkLays
<1> HIDE DEF S
<1>9. IsPermutation(Walk(list, root), S)
  <2>1. ToSet(Walk(list, root)) = S /\ Len(Walk(list, root)) = Cardinality(S)
    BY <1>8, LaysShape
  <2> QED BY <2>1 DEF IsPermutation
<1> QED BY <1>7, <1>8, <1>9 DEF root, S

-----------------------------------------------------------------------------
(* What the operators on lists give                                         *)

\* Latest gives the same members, one of the latest first.
LEMMA LatestLays ==
  ASSUME NEW T, NEW seq, Lays(seq, T), NEW times, \A i \in DOMAIN seq : times[i] \in Nat
  PROVE  /\ Lays(Latest(seq, times), T)
         /\ \E order : /\ Latest(seq, times) = [k \in DOMAIN seq |-> seq[order[k]]]
                       /\ \A k \in DOMAIN seq : /\ order[1] \in DOMAIN seq
                                                /\ times[order[1]] >= times[k]
<1> DEFINE n == Len(seq)
           D == 1..n
           L == LatestOrder(n, times)
           order == Arranged(D, L)
<1>1. n \in Nat /\ DOMAIN seq = D
  BY LaysShape
<1>2. IsOrder(D, L)
  BY <1>1, LatestIsOrder
<1>3. IsFiniteSet(D) /\ Cardinality(D) = n
  <2>1. \A m \in Nat : IsFiniteSet(1..m) /\ Cardinality(1..m) = m
    BY FS_Interval
  <2> QED BY <1>1, <2>1
<1>4. Latest(seq, times) = [k \in DOMAIN seq |-> seq[order[k]]]
  <2> DEFINE ahead(i) == {j \in D : times[j] > times[i] \/ (times[j] = times[i] /\ j < i)}
  <2>1. \A i \in D : ahead(i) = {j \in D : <<j, i>> \in L}
    BY DEF LatestOrder
  <2> HIDE DEF L
  <2>2. PICK before : before = [i \in D |-> Cardinality(ahead(i))]
    OBVIOUS
  <2>3. before = [i \in D |-> Cardinality({j \in D : <<j, i>> \in L})]
    <3> HIDE DEF ahead
    <3> QED BY <2>1, <2>2
  <2>4. Arranged(D, L) = [k \in 1..Cardinality(D) |-> CHOOSE i \in D : before[i] = k - 1]
    BY <2>3 DEF Arranged
  <2>5. Latest(seq, times) = [k \in D |-> seq[[m \in 1..Cardinality(D) |-> CHOOSE i \in D : before[i] = m - 1][k]]]
    BY <1>1, <2>2 DEF Latest, Sorted
  <2> QED BY <1>1, <2>4, <2>5
<1>5. /\ Lays(order, D) /\ Len(order) = n
      /\ \A i, j \in D : i < j => <<order[i], order[j]>> \in L
  <2> HIDE DEF L
  <2>1. \A i, j \in 1..Cardinality(D) : i < j => <<order[i], order[j]>> \in L
    BY <1>2, <1>3, ArrangedLays
  <2> QED BY <1>2, <1>3, <2>1, ArrangedLays
<1>6. \A i \in D : order[i] \in D
  <2> HIDE DEF order
  <2> QED BY <1>5, LaysShape
<1>7. ASSUME NEW k \in DOMAIN seq PROVE order[1] \in DOMAIN seq /\ times[order[1]] >= times[k]
  <2> HIDE DEF order
  <2>1. 1 \in D /\ k \in D
    BY <1>1
  <2>2. PICK i \in D : order[i] = k
    <3>1. DOMAIN order = D
      BY <1>5, LaysShape
    <3> QED BY <1>5, <2>1, <3>1 DEF Lays
  <2>3. i = 1 \/ 1 < i
    BY <1>1
  <2>4. times[order[1]] \in Nat /\ times[k] \in Nat
    BY <1>1, <1>6, <2>1
  <2>5. ASSUME 1 < i PROVE times[order[1]] >= times[order[i]]
    <3>1. <<order[1], order[i]>> \in L
      BY <1>5, <2>1, <2>5
    <3> QED BY <2>2, <2>4, <3>1 DEF LatestOrder
  <2> QED BY <1>1, <1>6, <2>1, <2>2, <2>3, <2>4, <2>5
<1>8. Lays(Latest(seq, times), T)
  <2> HIDE DEF order
  <2> QED BY <1>1, <1>4, <1>5, LaysPermuted, SMTT(30)
<1> QED BY <1>4, <1>7, <1>8

\* Keys gives every key once.
LEMMA KeysLay ==
  ASSUME NEW T, NEW list \in Seq(T)
  PROVE  Lays(Keys(list), ToSet(list))
<1> DEFINE S == ToSet(list)
           first(v) == CHOOSE i \in DOMAIN list : list[i] = v /\ \A j \in 1..(i - 1) : list[j] # v
           rank == [v \in S |-> first(v)]
           L == RankOrder(S, rank)
<1>1. Len(list) \in Nat /\ DOMAIN list = 1..Len(list)
  BY LenProperties
<1>2. ASSUME NEW v \in S PROVE first(v) \in DOMAIN list /\ list[first(v)] = v
  <2> DEFINE at == {i \in DOMAIN list : list[i] = v}
  <2>1. at # {} /\ at \in SUBSET Nat
    BY <1>1 DEF ToSet
  <2>2. PICK i \in at : \A j \in at : i <= j
    <3> HIDE DEF at
    <3> QED BY <2>1, LeastNat
  <2>3. \A j \in 1..(i - 1) : list[j] # v
    <3>1. ASSUME NEW j \in 1..(i - 1), list[j] = v PROVE FALSE
      <4>1. i \in 1..Len(list) /\ i \in Nat
        BY <1>1
      <4>2. j \in 1..Len(list) /\ ~(i <= j)
        BY <1>1, <4>1
      <4> QED BY <1>1, <2>2, <3>1, <4>2
    <3> QED BY <3>1
  <2> QED BY <2>2, <2>3
<1>3. \A x \in S : {y \in S : first(y) < first(x)} = {y \in S : <<y, x>> \in L}
  <2> HIDE DEF first
  <2> QED BY DEF RankOrder
<1>4. Keys(list) = Sorted(S, LAMBDA a, b : first(a) < first(b))
  BY DEF Keys
<1>5. \A x \in S : rank[x] = first(x)
  OBVIOUS
<1>6. IsFiniteSet(S)
  <2>1. list \in Surjection(1..Len(list), S)
    BY <1>1 DEF Surjection, ToSet
  <2> HIDE DEF S
  <2> QED BY <1>1, <2>1, FS_Interval, FS_Surjection
<1> HIDE DEF S, first, rank
<1>7. IsOrder(S, L)
  <2>1. \A x \in S : rank[x] \in Nat
    BY <1>1, <1>2, <1>5
  <2>2. \A x, y \in S : rank[x] = rank[y] => x = y
    BY <1>2, <1>5
  <2> QED BY <2>1, <2>2, RankIsOrder
<1> HIDE DEF L
<1>8. Keys(list) = Arranged(S, L)
  <2>1. PICK before : before = [x \in S |-> Cardinality({y \in S : first(y) < first(x)})]
    OBVIOUS
  <2>2. before = [x \in S |-> Cardinality({y \in S : <<y, x>> \in L})]
    BY <1>3, <2>1
  <2>3. Keys(list) = [k \in 1..Cardinality(S) |-> CHOOSE x \in S : before[x] = k - 1]
    BY <1>4, <2>1 DEF Sorted
  <2> QED BY <2>2, <2>3 DEF Arranged
<1>9. Lays(Keys(list), S)
  BY <1>6, <1>7, <1>8, ArrangedLays
<1> QED BY <1>9 DEF S

\* Sessions that are told apart by their ids.
Distinct(T) == (\A s \in T : s.updated \in Nat) /\ \A s, t \in T : s.id = t.id => s = t

\* byRecent keeps the sessions and puts one of the latest first;
LEMMA byRecentLays ==
  ASSUME NEW T, NEW list, Lays(list, T), Distinct(T)
  PROVE  /\ Lays(byRecent(list), T)
         /\ \A s \in T : byRecent(list)[1] \in T /\ byRecent(list)[1].updated >= s.updated
<1> DEFINE times == [k \in DOMAIN list |-> list[k].updated]
<1>1. byRecent(list) = Latest(list, times)
  BY DEF byRecent, Mapped
<1>2. Len(list) \in Nat /\ DOMAIN list = 1..Len(list) /\ \A i \in 1..Len(list) : list[i] \in T
  BY LaysShape
<1>3. \A k \in DOMAIN list : times[k] = list[k].updated /\ times[k] \in Nat
  BY <1>2 DEF Distinct
<1> HIDE DEF times
<1>4. Lays(Latest(list, times), T)
  BY <1>3, LatestLays
<1>5. PICK order : /\ Latest(list, times) = [k \in DOMAIN list |-> list[order[k]]]
                   /\ \A k \in DOMAIN list : order[1] \in DOMAIN list /\ times[order[1]] >= times[k]
  BY <1>3, LatestLays
<1>6. ASSUME NEW s \in T PROVE byRecent(list)[1] \in T /\ byRecent(list)[1].updated >= s.updated
  <2>1. PICK k \in DOMAIN list : list[k] = s
    BY DEF Lays
  <2>2. 1 \in DOMAIN list
    BY <1>2
  <2>3. byRecent(list)[1] = list[order[1]] /\ order[1] \in DOMAIN list
    BY <1>1, <1>5, <2>2
  <2> QED BY <1>2, <1>3, <1>5, <2>1, <2>3
<1> QED BY <1>1, <1>4, <1>6

\* ByLatest does so with nodes.
LEMMA ByLatestLays ==
  ASSUME NEW N, NEW nodes, Lays(nodes, N), \A n \in N : n.latest \in Nat
  PROVE  /\ Lays(ByLatest(nodes), N)
         /\ \A n \in N : ByLatest(nodes)[1] \in N /\ ByLatest(nodes)[1].latest >= n.latest
<1> DEFINE times == [k \in DOMAIN nodes |-> nodes[k].latest]
<1>1. ByLatest(nodes) = Latest(nodes, times)
  BY DEF ByLatest, Mapped
<1>2. Len(nodes) \in Nat /\ DOMAIN nodes = 1..Len(nodes) /\ \A i \in 1..Len(nodes) : nodes[i] \in N
  BY LaysShape
<1>3. \A k \in DOMAIN nodes : times[k] = nodes[k].latest /\ times[k] \in Nat
  BY <1>2
<1> HIDE DEF times
<1>4. Lays(Latest(nodes, times), N)
  BY <1>3, LatestLays
<1>5. PICK order : /\ Latest(nodes, times) = [k \in DOMAIN nodes |-> nodes[order[k]]]
                   /\ \A k \in DOMAIN nodes : order[1] \in DOMAIN nodes /\ times[order[1]] >= times[k]
  BY <1>3, LatestLays
<1>6. ASSUME NEW n \in N PROVE ByLatest(nodes)[1] \in N /\ ByLatest(nodes)[1].latest >= n.latest
  <2>1. PICK k \in DOMAIN nodes : nodes[k] = n
    BY DEF Lays
  <2>2. 1 \in DOMAIN nodes
    BY <1>2
  <2>3. ByLatest(nodes)[1] = nodes[order[1]] /\ order[1] \in DOMAIN nodes
    BY <1>1, <1>5, <2>2
  <2> QED BY <1>2, <1>3, <1>5, <2>1, <2>3
<1> QED BY <1>1, <1>4, <1>6

-----------------------------------------------------------------------------
(* Trees: a node has sessions S under it and, with its own, the ids I of groups. *)

\* Every member of N has a part of S of its own.
Split(N, piece, S) ==
  /\ S = UNION {piece[n] : n \in N}
  /\ \A n, m \in N : n # m => piece[n] \cap piece[m] = {}

\* What a node says is under it.
Grown(n, S) ==
  /\ S # {} /\ IsFiniteSet(S) /\ n.count = Cardinality(S)
  /\ n.latest \in Nat /\ Lays(n.children, ToSet(n.children))

\* A group that says what is under it, with an id no session has.
Stem(n, S) == n.kind # "session" /\ n.id[1] # "session" /\ Grown(n, S)

\* On so many levels.
Sprout0(n, S, I) == I = {} /\ \E s : S = {s} /\ n = sessionNode(s) /\ s.updated \in Nat

Grove0(N, S, I) ==
  \E P, J : Split(N, P, S) /\ Split(N, J, I) /\ \A n \in N : Sprout0(n, P[n], J[n])

Sprout1(n, S, I) ==
  Sprout0(n, S, I) \/ (Stem(n, S) /\ n.id \in I /\ Grove0(ToSet(n.children), S, I \ {n.id}))

Grove1(N, S, I) ==
  \E P, J : Split(N, P, S) /\ Split(N, J, I) /\ \A n \in N : Sprout1(n, P[n], J[n])

Sprout2(n, S, I) ==
  Sprout0(n, S, I) \/ (Stem(n, S) /\ n.id \in I /\ Grove1(ToSet(n.children), S, I \ {n.id}))

Grove2(N, S, I) ==
  \E P, J : Split(N, P, S) /\ Split(N, J, I) /\ \A n \in N : Sprout2(n, P[n], J[n])

Sprout3(n, S, I) ==
  Sprout0(n, S, I) \/ (Stem(n, S) /\ n.id \in I /\ Grove2(ToSet(n.children), S, I \ {n.id}))

Grove3(N, S, I) ==
  \E P, J : Split(N, P, S) /\ Split(N, J, I) /\ \A n \in N : Sprout3(n, P[n], J[n])

\* What has fewer levels has as many.
LEMMA GrovesGrow ==
  /\ \A n, S, I : Sprout0(n, S, I) => Sprout1(n, S, I)
  /\ \A n, S, I : Sprout1(n, S, I) => Sprout2(n, S, I)
  /\ \A n, S, I : Sprout2(n, S, I) => Sprout3(n, S, I)
  /\ \A N, S, I : Grove0(N, S, I) => Grove1(N, S, I)
  /\ \A N, S, I : Grove1(N, S, I) => Grove2(N, S, I)
  /\ \A N, S, I : Grove2(N, S, I) => Grove3(N, S, I)
<1>1. \A n, S, I : Sprout0(n, S, I) => Sprout1(n, S, I)
  BY DEF Sprout1
<1>2. \A N, S, I : Grove0(N, S, I) => Grove1(N, S, I)
  BY <1>1 DEF Grove0, Grove1
<1>3. \A n, S, I : Sprout1(n, S, I) => Sprout2(n, S, I)
  BY <1>2 DEF Sprout1, Sprout2
<1>4. \A N, S, I : Grove1(N, S, I) => Grove2(N, S, I)
  BY <1>3 DEF Grove1, Grove2
<1>5. \A n, S, I : Sprout2(n, S, I) => Sprout3(n, S, I)
  BY <1>4 DEF Sprout2, Sprout3
<1>6. \A N, S, I : Grove2(N, S, I) => Grove3(N, S, I)
  BY <1>5 DEF Grove2, Grove3
<1> QED BY <1>1, <1>2, <1>3, <1>4, <1>5, <1>6

\* A node says what is under it on whatever level, and a session has nothing under it.
LEMMA SproutsAreGrown ==
  /\ \A n, S, I : Sprout0(n, S, I) \/ Sprout1(n, S, I) \/ Sprout2(n, S, I) \/ Sprout3(n, S, I) => Grown(n, S)
  /\ \A n, S, I : Sprout0(n, S, I) => n.kind = "session" /\ n.children = <<>>
<1>1. ASSUME NEW n, NEW S, NEW I, Sprout0(n, S, I) PROVE Grown(n, S) /\ n.kind = "session" /\ n.children = <<>>
  <2>1. PICK s : S = {s} /\ n = sessionNode(s) /\ s.updated \in Nat
    BY <1>1 DEF Sprout0
  <2>2. n.kind = "session" /\ n.children = <<>> /\ n.count = 1 /\ n.latest = s.updated
    BY <2>1 DEF sessionNode
  <2>3. IsFiniteSet(S) /\ Cardinality(S) = 1
    BY <2>1, FS_Singleton
  <2>4. Lays(<<>>, ToSet(<<>>))
    <3>1. ToSet(<<>>) = {}
      BY DEF ToSet
    <3> QED BY <3>1, LaysFew
  <2> QED BY <2>1, <2>2, <2>3, <2>4 DEF Grown
<1>2. \A n, S, I : Sprout1(n, S, I) \/ Sprout2(n, S, I) \/ Sprout3(n, S, I) => Sprout0(n, S, I) \/ Stem(n, S)
  BY DEF Sprout1, Sprout2, Sprout3
<1> QED BY <1>1, <1>2 DEF Stem

\* What Group counts and dates.
LEMMA GroupIsStem ==
  ASSUME NEW C, NEW children, Lays(children, C), C # {}, NEW P, NEW S, Split(C, P, S),
         \A c \in C : Grown(c, P[c]), NEW id, id[1] # "session", NEW kind, kind # "session", NEW label
  PROVE  LET n == Group(id, kind, label, children)
         IN  /\ Stem(n, S) /\ n.id = id /\ n.label = label /\ n.kind = kind
             /\ n.children = children /\ ToSet(n.children) = C
             /\ (\E c \in C : n.latest = c.latest) /\ \A c \in C : n.latest >= c.latest
<1> DEFINE n == Group(id, kind, label, children)
           counts == [k \in DOMAIN children |-> children[k].count]
           piece == [k \in DOMAIN children |-> P[children[k]]]
           times == {c.latest : c \in C}
<1>1. /\ Len(children) \in Nat /\ DOMAIN children = 1..Len(children)
      /\ \A k \in 1..Len(children) : children[k] \in C
      /\ ToSet(children) = C /\ IsFiniteSet(C)
  BY LaysShape
<1>2. /\ n.id = id /\ n.kind = kind /\ n.label = label /\ n.children = children
      /\ n.count = SumFunction(counts) /\ n.latest = Max(times)
  BY <1>1 DEF Group, Mapped
<1> HIDE DEF n
<1>3. IsFiniteSet(DOMAIN counts) /\ DOMAIN counts = DOMAIN children
  BY <1>1, FS_Interval
<1>4. \A k \in DOMAIN children : IsFiniteSet(piece[k]) /\ counts[k] = Cardinality(piece[k])
  BY <1>1 DEF Grown
<1>5. \A i, j \in DOMAIN children : i # j => piece[i] \cap piece[j] = {}
  BY <1>1 DEF Split, Lays
<1>6. S = UNION {piece[k] : k \in DOMAIN children}
  BY <1>1 DEF Split, Lays
<1> HIDE DEF counts, piece
<1>7. IsFiniteSet(S) /\ n.count = Cardinality(S)
  <2>1. IsFiniteSet(UNION {piece[k] : k \in DOMAIN counts})
        /\ SumFunction(counts) = Cardinality(UNION {piece[k] : k \in DOMAIN counts})
    BY <1>3, <1>4, <1>5, SumOfCounts, SMTT(30)
  <2> QED BY <1>2, <1>3, <1>6, <2>1
<1>8. S # {}
  BY DEF Split, Grown
<1>9. times \in SUBSET Nat /\ times # {} /\ IsFiniteSet(times)
  <2> DEFINE f == [c \in C |-> c.latest]
  <2>1. f \in Surjection(C, times)
    BY DEF Surjection
  <2>2. times \in SUBSET Nat /\ times # {}
    BY DEF Grown
  <2> HIDE DEF f, times
  <2> QED BY <1>1, <2>1, <2>2, FS_Surjection
<1>10. Max(times) \in times /\ \A t \in times : Max(times) >= t
  <2> HIDE DEF times
  <2>1. \E x \in times : \A y \in times : x >= y
    BY <1>9, GreatestNat
  <2> QED BY <2>1 DEF Max
<1>11. (\E c \in C : n.latest = c.latest) /\ \A c \in C : n.latest >= c.latest
  BY <1>2, <1>10
<1>12. n.latest \in Nat
  BY <1>2, <1>9, <1>10
<1>13. Stem(n, S)
  BY <1>1, <1>2, <1>7, <1>8, <1>12 DEF Stem, Grown
<1> QED BY <1>1, <1>2, <1>11, <1>13 DEF n

\* Nodes that are made of keys share what is under them as their keys do.
Shares(N, P, J, K, node, S, I) ==
  /\ Split(N, P, UNION {S[k] : k \in K}) /\ Split(N, J, UNION {I[k] : k \in K})
  /\ \A k \in K : P[node[k]] = S[k] /\ J[node[k]] = I[k]

\* Nodes made of different keys share what their keys share.
LEMMA KeyedSplit ==
  ASSUME NEW K, NEW node, \A a, b \in K : node[a] = node[b] => a = b, NEW S, NEW I,
         \A a, b \in K : a # b => S[a] \cap S[b] = {} /\ I[a] \cap I[b] = {}
  PROVE  \E P, J : Shares({node[k] : k \in K}, P, J, K, node, S, I)
<1> DEFINE N == {node[k] : k \in K}
           key(n) == CHOOSE k \in K : node[k] = n
           P == [n \in N |-> S[key(n)]]
           J == [n \in N |-> I[key(n)]]
<1>1. \A n \in N : key(n) \in K /\ node[key(n)] = n
  OBVIOUS
<1> HIDE DEF key
<1>2. \A k \in K : key(node[k]) = k /\ node[k] \in N
  BY <1>1
<1>3. \A k \in K : P[node[k]] = S[k] /\ J[node[k]] = I[k]
  BY <1>2
<1>4. \A n, m \in N : n # m => P[n] \cap P[m] = {} /\ J[n] \cap J[m] = {}
  BY <1>1
<1>5. \A n \in N : P[n] = S[key(n)] /\ J[n] = I[key(n)]
  OBVIOUS
<1> HIDE DEF N, P, J
<1>6. UNION {S[k] : k \in K} = UNION {P[n] : n \in N} /\ UNION {I[k] : k \in K} = UNION {J[n] : n \in N}
  BY <1>1, <1>2, <1>3, <1>5
<1>7. Split(N, P, UNION {S[k] : k \in K}) /\ Split(N, J, UNION {I[k] : k \in K})
  BY <1>4, <1>6 DEF Split
<1>8. Shares(N, P, J, K, node, S, I)
  BY <1>3, <1>7 DEF Shares
<1>9. \E Q, R : Shares(N, Q, R, K, node, S, I)
  BY <1>8
<1> QED BY <1>9 DEF N

\* A sequence of nodes, grown on so many levels.
Grows0(nodes, S, I) == Lays(nodes, ToSet(nodes)) /\ Grove0(ToSet(nodes), S, I)
Grows1(nodes, S, I) == Lays(nodes, ToSet(nodes)) /\ Grove1(ToSet(nodes), S, I)
Grows2(nodes, S, I) == Lays(nodes, ToSet(nodes)) /\ Grove2(ToSet(nodes), S, I)
Grows3(nodes, S, I) == Lays(nodes, ToSet(nodes)) /\ Grove3(ToSet(nodes), S, I)

\* The leaves, the latest first.
LEMMA LeavesGrow ==
  ASSUME NEW T, NEW list, Lays(list, T), Distinct(T)
  PROVE  /\ Grows0(Leaves(list), T, {})
         /\ Lays(Leaves(list), {sessionNode(s) : s \in T})
         /\ T # {} => Leaves(list)[1] = sessionNode(byRecent(list)[1])
<1> DEFINE f == [s \in T |-> sessionNode(s)]
           r == byRecent(list)
           q == Leaves(list)
           N == {f[s] : s \in T}
<1>1. \A s \in T : f[s] = sessionNode(s)
  OBVIOUS
<1>2. Lays(r, T)
  BY byRecentLays
<1>3. Len(r) \in Nat /\ DOMAIN r = 1..Len(r) /\ \A i \in 1..Len(r) : r[i] \in T
  BY <1>2, LaysShape
<1>4. q = [k \in DOMAIN r |-> f[r[k]]]
  BY <1>3 DEF Leaves, Mapped
<1> HIDE DEF f, r, q
<1>5. \A s, t \in T : f[s] = f[t] => s = t
  <2>1. ASSUME NEW s \in T PROVE f[s].label = s.id
    <3>1. sessionNode(s).label = s.id
      BY DEF sessionNode
    <3> QED BY <1>1, <3>1
  <2> QED BY <2>1 DEF Distinct
<1>6. Lays(q, N)
  BY <1>2, <1>4, <1>5, LaysMapped
<1>7. ToSet(q) = N
  BY <1>6, LaysShape
<1>8. Grove0(N, T, {})
  <2> DEFINE S == [s \in T |-> {s}]
             I == [s \in T |-> {}]
  <2>1. \A s, t \in T : s # t => S[s] \cap S[t] = {} /\ I[s] \cap I[t] = {}
    OBVIOUS
  <2>2. UNION {S[s] : s \in T} = T /\ UNION {I[s] : s \in T} = {}
    OBVIOUS
  <2>3. \A s \in T : S[s] = {s} /\ I[s] = {}
    OBVIOUS
  <2> HIDE DEF S, I
  <2>4. \E P, J : Shares({f[s] : s \in T}, P, J, T, f, S, I)
    BY <1>5, <2>1, KeyedSplit
  <2>5. PICK P, J : Shares(N, P, J, T, f, S, I)
    BY <2>4
  <2>6. \A s \in T : Sprout0(f[s], P[f[s]], J[f[s]])
    BY <1>1, <2>3, <2>5 DEF Sprout0, Distinct, Shares
  <2>7. \A n \in N : Sprout0(n, P[n], J[n])
    BY <2>6
  <2>8. Split(N, P, T) /\ Split(N, J, {})
    BY <2>2, <2>5 DEF Shares
  <2> HIDE DEF N
  <2> QED BY <2>7, <2>8 DEF Grove0
<1>9. T # {} => q[1] = sessionNode(r[1])
  <2>1. ASSUME T # {} PROVE 1 \in DOMAIN r
    BY <1>2, <1>3, <2>1 DEF Lays
  <2> QED BY <1>1, <1>3, <1>4, <2>1
<1>10. N = {sessionNode(s) : s \in T}
  BY <1>1
<1> HIDE DEF N
<1>11. Grows0(q, T, {}) /\ Lays(q, {sessionNode(s) : s \in T})
  BY <1>6, <1>7, <1>8, <1>10 DEF Grows0
<1> QED BY <1>9, <1>11 DEF q, r

\* A group of nodes.
LEMMA GroupFields ==
  ASSUME NEW id, NEW kind, NEW label, NEW children, NEW n, n = Group(id, kind, label, children)
  PROVE  n.id = id /\ n.kind = kind /\ n.label = label /\ n.children = children
BY DEF Group

\* A group over nodes of one level is a node of the next.
LEMMA GroupGrows ==
  ASSUME NEW children, children # <<>>, NEW S, NEW K, NEW id, id \notin K, id[1] # "session",
         NEW kind, kind # "session", NEW label, NEW n, n = Group(id, kind, label, children),
         NEW I, I = K \cup {id}
  PROVE  /\ Grows0(children, S, K) => Sprout1(n, S, I)
         /\ Grows1(children, S, K) => Sprout2(n, S, I)
         /\ Grows2(children, S, K) => Sprout3(n, S, I)
<1> DEFINE C == ToSet(children)
<1>1. n.id = id /\ n.kind = kind /\ n.label = label /\ n.children = children
  BY DEF Group
<1>2. ASSUME Lays(children, C) PROVE C # {}
  <2>1. Len(children) \in Nat /\ DOMAIN children = 1..Len(children) /\ children \in Seq(C)
    BY <1>2, LaysShape DEF Lays
  <2>2. Len(children) # 0
    BY <2>1, EmptySeq
  <2>3. 1 \in DOMAIN children /\ children[1] \in ToSet(children)
    BY <2>1, <2>2 DEF ToSet
  <2> QED BY <2>3
<1>3. ASSUME NEW P, Lays(children, C), Split(C, P, S), \A c \in C : Grown(c, P[c])
      PROVE  Stem(n, S)
  <2>1. C # {}
    BY <1>2, <1>3
  <2> HIDE DEF C
  <2> QED BY <1>3, <2>1, GroupIsStem
<1> HIDE DEF C
<1>4. I \ {n.id} = K /\ n.id \in I /\ ToSet(n.children) = C
  BY <1>1 DEF C
<1>5. ASSUME Grows0(children, S, K) PROVE Sprout1(n, S, I)
  <2>1. Lays(children, C) /\ Grove0(C, S, K)
    BY <1>5 DEF Grows0, C
  <2>2. PICK P, J : Split(C, P, S) /\ \A c \in C : Sprout0(c, P[c], J[c])
    BY <2>1 DEF Grove0
  <2>3. \A c \in C : Grown(c, P[c])
    BY <2>2, SproutsAreGrown
  <2>4. Stem(n, S)
    BY <1>3, <2>1, <2>2, <2>3
  <2> QED BY <1>4, <2>1, <2>4 DEF Sprout1
<1>6. ASSUME Grows1(children, S, K) PROVE Sprout2(n, S, I)
  <2>1. Lays(children, C) /\ Grove1(C, S, K)
    BY <1>6 DEF Grows1, C
  <2>2. PICK P, J : Split(C, P, S) /\ \A c \in C : Sprout1(c, P[c], J[c])
    BY <2>1 DEF Grove1
  <2>3. \A c \in C : Grown(c, P[c])
    BY <2>2, SproutsAreGrown
  <2>4. Stem(n, S)
    BY <1>3, <2>1, <2>2, <2>3
  <2> QED BY <1>4, <2>1, <2>4 DEF Sprout2
<1>7. ASSUME Grows2(children, S, K) PROVE Sprout3(n, S, I)
  <2>1. Lays(children, C) /\ Grove2(C, S, K)
    BY <1>7 DEF Grows2, C
  <2>2. PICK P, J : Split(C, P, S) /\ \A c \in C : Sprout2(c, P[c], J[c])
    BY <2>1 DEF Grove2
  <2>3. \A c \in C : Grown(c, P[c])
    BY <2>2, SproutsAreGrown
  <2>4. Stem(n, S)
    BY <1>3, <2>1, <2>2, <2>3
  <2> QED BY <1>4, <2>1, <2>4 DEF Sprout3
<1> QED BY <1>5, <1>6, <1>7

\* Nodes that are made of keys, when each is grown on so many levels.
Flourish1(K, node, S, I) == \A k \in K : Sprout1(node[k], S[k], I[k])
Flourish3(K, node, S, I) == \A k \in K : Sprout3(node[k], S[k], I[k])

\* The nodes of all keys hold what is under any key.
LEMMA KeyedGroves ==
  ASSUME NEW K, NEW node, \A a, b \in K : node[a] = node[b] => a = b, NEW S, NEW I,
         \A a, b \in K : a # b => S[a] \cap S[b] = {} /\ I[a] \cap I[b] = {},
         NEW N, N = {node[k] : k \in K},
         NEW T, T = UNION {S[k] : k \in K}, NEW all, all = UNION {I[k] : k \in K}
  PROVE  /\ Flourish1(K, node, S, I) => Grove1(N, T, all)
         /\ Flourish3(K, node, S, I) => Grove3(N, T, all)
<1>1. \E P, J : Shares({node[k] : k \in K}, P, J, K, node, S, I)
  BY KeyedSplit
<1>2. PICK P, J : Shares(N, P, J, K, node, S, I)
  BY <1>1
<1>3. Split(N, P, T) /\ Split(N, J, all) /\ \A k \in K : P[node[k]] = S[k] /\ J[node[k]] = I[k]
  BY <1>2 DEF Shares
<1>4. ASSUME Flourish1(K, node, S, I) PROVE \A n \in N : Sprout1(n, P[n], J[n])
  BY <1>3, <1>4 DEF Flourish1
<1>5. ASSUME Flourish3(K, node, S, I) PROVE \A n \in N : Sprout3(n, P[n], J[n])
  BY <1>3, <1>5 DEF Flourish3
<1>6. Flourish1(K, node, S, I) => Grove1(N, T, all)
  BY <1>3, <1>4 DEF Grove1
<1>7. Flourish3(K, node, S, I) => Grove3(N, T, all)
  BY <1>3, <1>5 DEF Grove3
<1> QED BY <1>6, <1>7

\* The keys of a list, the members with a key, and which they are.
KeysOf(list, key) == Keys([i \in DOMAIN list |-> key[list[i]]])
Part(list, key, k) ==
  FlattenSeq([i \in DOMAIN list |-> IF key[list[i]] = k THEN <<list[i]>> ELSE <<>>])
Share(T, key, k) == {s \in T : key[s] = k}

\* The keys of a list are listed once each.
LEMMA KeyedKeys ==
  ASSUME NEW T, NEW list, Lays(list, T), NEW key, NEW V, V = {key[s] : s \in T}
  PROVE  Lays(KeysOf(list, key), V)
<1> DEFINE ws == [i \in DOMAIN list |-> key[list[i]]]
<1>1. Len(list) \in Nat /\ DOMAIN list = 1..Len(list) /\ \A i \in 1..Len(list) : list[i] \in T
  BY LaysShape
<1>2. ws \in Seq(V) /\ ToSet(ws) = V
  <2>1. ws \in Seq(V)
    BY <1>1
  <2>2. \A s \in T : \E i \in DOMAIN list : list[i] = s
    BY DEF Lays
  <2>3. \A i \in DOMAIN list : ws[i] = key[list[i]]
    OBVIOUS
  <2>4. DOMAIN ws = DOMAIN list
    OBVIOUS
  <2> HIDE DEF ws
  <2> QED BY <1>1, <2>1, <2>2, <2>3, <2>4 DEF ToSet
<1> HIDE DEF ws
<1>3. KeysOf(list, key) = Keys(ws)
  BY DEF ws, KeysOf
<1>4. Lays(Keys(ws), ToSet(ws))
  BY <1>2, KeysLay
<1> QED BY <1>2, <1>3, <1>4

\* Nodes for the keys of a list, the latest first.
FromKeys(T, list, key, V, node, N, r) ==
  /\ Lays(list, T) /\ V = {key[s] : s \in T} /\ N = {node[k] : k \in V}
  /\ \A a, b \in V : node[a] = node[b] => a = b
  /\ \A k \in V : node[k].latest \in Nat
  /\ r = ByLatest([i \in DOMAIN KeysOf(list, key) |-> node[KeysOf(list, key)[i]]])

\* Nodes for the keys of a list are listed once each, one of the latest first.
LEMMA KeyedNodes ==
  ASSUME NEW T, NEW list, NEW key, NEW V, NEW node, NEW N, NEW r, FromKeys(T, list, key, V, node, N, r)
  PROVE  Lays(r, N) /\ ToSet(r) = N /\ \A k \in V : r[1] \in N /\ r[1].latest >= node[k].latest
<1> DEFINE ks == KeysOf(list, key)
           q == [i \in DOMAIN ks |-> node[ks[i]]]
<1>1. /\ Lays(list, T) /\ V = {key[s] : s \in T} /\ N = {node[k] : k \in V}
      /\ \A a, b \in V : node[a] = node[b] => a = b
      /\ \A k \in V : node[k].latest \in Nat
      /\ r = ByLatest(q)
  BY DEF FromKeys
<1>2. Lays(ks, V)
  BY <1>1, KeyedKeys
<1> HIDE DEF ks
<1>3. Lays(q, N)
  BY <1>1, <1>2, LaysMapped
<1> HIDE DEF q
<1>4. Lays(r, N) /\ \A n \in N : r[1] \in N /\ r[1].latest >= n.latest
  <2>1. \A n \in N : n.latest \in Nat
    BY <1>1
  <2> QED BY <1>1, <1>3, <2>1, ByLatestLays
<1>5. \A k \in V : r[1] \in N /\ r[1].latest >= node[k].latest
  BY <1>1, <1>4
<1>6. ToSet(r) = N
  BY <1>4, LaysShape
<1> QED BY <1>4, <1>5, <1>6

\* And what is under them.
LEMMA KeyedGrows ==
  ASSUME NEW T, NEW list, NEW key, NEW V, NEW node, NEW N, NEW r, FromKeys(T, list, key, V, node, N, r),
         NEW S, \A k \in V : S[k] = Share(T, key, k),
         NEW I, \A a, b \in V : a # b => I[a] \cap I[b] = {}, NEW all, all = UNION {I[k] : k \in V}
  PROVE  /\ Flourish1(V, node, S, I) => Grows1(r, T, all)
         /\ Flourish3(V, node, S, I) => Grows3(r, T, all)
<1>1. T = UNION {S[k] : k \in V}
  BY DEF Share, FromKeys
<1>2. \A a, b \in V : a # b => S[a] \cap S[b] = {} /\ I[a] \cap I[b] = {}
  BY DEF Share
<1>3. N = {node[k] : k \in V} /\ \A a, b \in V : node[a] = node[b] => a = b
  BY DEF FromKeys
<1>4. /\ Flourish1(V, node, S, I) => Grove1(N, T, all)
      /\ Flourish3(V, node, S, I) => Grove3(N, T, all)
  BY <1>1, <1>2, <1>3, KeyedGroves
<1>5. Lays(r, N) /\ ToSet(r) = N
  BY KeyedNodes
<1> QED BY <1>4, <1>5 DEF Grows1, Grows3

\* Groves beside each other, whose nodes are known by their ids.
SharedBy(N, S, I, p) ==
  /\ Split(N, p[1], S) /\ Split(N, p[2], I) /\ \A n \in N : Sprout2(n, p[1][n], p[2][n])

Beside(K, N, S, I, all, T, U) ==
  /\ \A k \in K : Grove2(N[k], S[k], I[k])
  /\ \A k \in K : \A n \in N[k] : n.id \in I[k]
  /\ \A a, b \in K : a # b => S[a] \cap S[b] = {} /\ I[a] \cap I[b] = {}
  /\ all = UNION {N[k] : k \in K} /\ T = UNION {S[k] : k \in K} /\ U = UNION {I[k] : k \in K}

\* What is beside each other, with ids of its own, is one grove.
LEMMA GrovesTogether ==
  ASSUME NEW K, NEW N, NEW S, NEW I, NEW all, NEW T, NEW U, Beside(K, N, S, I, all, T, U)
  PROVE  Grove2(all, T, U)
<1> DEFINE c == [k \in K |-> CHOOSE p : SharedBy(N[k], S[k], I[k], p)]
           key(n) == CHOOSE k \in K : n \in N[k]
           P == [n \in all |-> c[key(n)][1][n]]
           J == [n \in all |-> c[key(n)][2][n]]
<1>0. /\ \A k \in K : Grove2(N[k], S[k], I[k])
      /\ \A k \in K : \A n \in N[k] : n.id \in I[k]
      /\ \A a, b \in K : a # b => S[a] \cap S[b] = {} /\ I[a] \cap I[b] = {}
      /\ all = UNION {N[k] : k \in K} /\ T = UNION {S[k] : k \in K} /\ U = UNION {I[k] : k \in K}
  BY DEF Beside
<1>1. ASSUME NEW k \in K PROVE SharedBy(N[k], S[k], I[k], c[k])
  <2>1. PICK p1, p2 : Split(N[k], p1, S[k]) /\ Split(N[k], p2, I[k]) /\ \A n \in N[k] : Sprout2(n, p1[n], p2[n])
    BY <1>0 DEF Grove2
  <2>2. SharedBy(N[k], S[k], I[k], <<p1, p2>>)
    BY <2>1 DEF SharedBy
  <2>3. \E p : SharedBy(N[k], S[k], I[k], p)
    BY <2>2
  <2> QED BY <2>3
<1>2. \A k \in K : /\ Split(N[k], c[k][1], S[k]) /\ Split(N[k], c[k][2], I[k])
                   /\ \A n \in N[k] : Sprout2(n, c[k][1][n], c[k][2][n])
  BY <1>1 DEF SharedBy
<1>3. \A a, b \in K : a # b => N[a] \cap N[b] = {}
  BY <1>0
<1>4. \A n \in all : key(n) \in K /\ n \in N[key(n)]
  BY <1>0
<1> HIDE DEF c, key
<1>5. \A k \in K : \A n \in N[k] : n \in all /\ key(n) = k
  <2>1. ASSUME NEW k \in K, NEW n \in N[k] PROVE n \in all /\ key(n) = k
    <3>1. n \in all
      BY <1>0
    <3> QED BY <1>3, <1>4, <3>1
  <2> QED BY <2>1
<1>6. \A n \in all : P[n] = c[key(n)][1][n] /\ J[n] = c[key(n)][2][n]
  OBVIOUS
<1> HIDE DEF P, J
<1>7. \A n \in all : Sprout2(n, P[n], J[n]) /\ P[n] \subseteq S[key(n)] /\ J[n] \subseteq I[key(n)]
  BY <1>2, <1>4, <1>6 DEF Split
<1>8. ASSUME NEW n \in all, NEW m \in all, n # m PROVE P[n] \cap P[m] = {} /\ J[n] \cap J[m] = {}
  <2>1. CASE key(n) = key(m)
    BY <1>2, <1>4, <1>6, <1>8, <2>1 DEF Split
  <2>2. CASE key(n) # key(m)
    BY <1>0, <1>4, <1>7, <2>2
  <2> QED BY <2>1, <2>2
<1>9. \A k \in K : S[k] = UNION {P[n] : n \in N[k]} /\ I[k] = UNION {J[n] : n \in N[k]}
  <2>1. ASSUME NEW k \in K PROVE S[k] = UNION {P[n] : n \in N[k]} /\ I[k] = UNION {J[n] : n \in N[k]}
    <3>1. \A n \in N[k] : P[n] = c[k][1][n] /\ J[n] = c[k][2][n]
      BY <1>5, <1>6
    <3>2. S[k] = UNION {c[k][1][n] : n \in N[k]} /\ I[k] = UNION {c[k][2][n] : n \in N[k]}
      BY <1>2 DEF Split
    <3> QED BY <3>1, <3>2
  <2> QED BY <2>1
<1>10. T = UNION {P[n] : n \in all} /\ U = UNION {J[n] : n \in all}
  <2>1. T \subseteq UNION {P[n] : n \in all} /\ U \subseteq UNION {J[n] : n \in all}
    BY <1>0, <1>5, <1>9
  <2>2. UNION {P[n] : n \in all} \subseteq T /\ UNION {J[n] : n \in all} \subseteq U
    BY <1>0, <1>4, <1>7
  <2> QED BY <2>1, <2>2
<1>11. Grove2(all, T, U)
  <2>1. Split(all, P, T) /\ Split(all, J, U)
    BY <1>8, <1>10 DEF Split
  <2> QED BY <1>7, <2>1 DEF Grove2
<1> QED BY <1>11

\* Where there are sessions there are nodes.
LEMMA GrowsSomething ==
  ASSUME NEW nodes, NEW S, NEW I, S # {},
         Grows0(nodes, S, I) \/ Grows1(nodes, S, I) \/ Grows2(nodes, S, I) \/ Grows3(nodes, S, I)
  PROVE  nodes # <<>>
<1>1. \E P : Split(ToSet(nodes), P, S)
  BY DEF Grows0, Grows1, Grows2, Grows3, Grove0, Grove1, Grove2, Grove3
<1>2. ToSet(<<>>) = {}
  BY DEF ToSet
<1> QED BY <1>1, <1>2 DEF Split

\* What is grown on some levels is grown on more.
LEMMA GrowsMore ==
  /\ \A nodes, S, I : Grows0(nodes, S, I) => Grows1(nodes, S, I)
  /\ \A nodes, S, I : Grows1(nodes, S, I) => Grows2(nodes, S, I)
  /\ \A nodes, S, I : Grows2(nodes, S, I) => Grows3(nodes, S, I)
BY GrovesGrow DEF Grows0, Grows1, Grows2, Grows3

\* The ids of what is under a node are longer than its own.
LEMMA LongerIds ==
  /\ \A a, b, w : Append(<<a, b>>, w) = <<a, b, w>>
  /\ \A a, b, w, x : Append(<<a, b, w>>, x) = <<a, b, w, x>>
<1>1. ASSUME NEW a, NEW b, NEW w PROVE Append(<<a, b>>, w) = <<a, b, w>>
  <2> DEFINE S == {a, b, w}
             s == Append(<<a, b>>, w)
  <2>1. <<a, b>> \in Seq(S) /\ w \in S /\ <<a, b, w>> \in Seq(S) /\ Len(<<a, b, w>>) = 3
    OBVIOUS
  <2>2. s \in Seq(S) /\ Len(s) = 3 /\ s[1] = a /\ s[2] = b /\ s[3] = w
    <3> HIDE DEF S
    <3> QED BY <2>1, AppendProperties
  <2>3. \A i \in 1..3 : s[i] = <<a, b, w>>[i]
    BY <2>2
  <2> HIDE DEF s, S
  <2>4. s = <<a, b, w>>
    BY <2>1, <2>2, <2>3, SeqEqual
  <2> QED BY <2>4 DEF s
<1>2. ASSUME NEW a, NEW b, NEW w, NEW x PROVE Append(<<a, b, w>>, x) = <<a, b, w, x>>
  <2> DEFINE S == {a, b, w, x}
             s == Append(<<a, b, w>>, x)
  <2>1. <<a, b, w>> \in Seq(S) /\ x \in S /\ <<a, b, w, x>> \in Seq(S) /\ Len(<<a, b, w, x>>) = 4
    OBVIOUS
  <2>2. s \in Seq(S) /\ Len(s) = 4 /\ s[1] = a /\ s[2] = b /\ s[3] = w /\ s[4] = x
    <3> HIDE DEF S
    <3> QED BY <2>1, AppendProperties
  <2>3. \A i \in 1..4 : s[i] = <<a, b, w, x>>[i]
    BY <2>2
  <2> HIDE DEF s, S
  <2>4. s = <<a, b, w, x>>
    BY <2>1, <2>2, <2>3, SeqEqual
  <2> QED BY <2>4 DEF s
<1> QED BY <1>1, <1>2

\* The members with a key.
LEMMA PartLays ==
  ASSUME NEW T, NEW list, Lays(list, T), NEW key, NEW k
  PROVE  Lays(Part(list, key, k), Share(T, key, k))
<1> DEFINE K == {s \in T : key[s] = k}
<1>1. Len(list) \in Nat /\ DOMAIN list = 1..Len(list) /\ \A i \in 1..Len(list) : list[i] \in T
  BY LaysShape
<1>2. [i \in DOMAIN list |-> IF key[list[i]] = k THEN <<list[i]>> ELSE <<>>]
        = [i \in DOMAIN list |-> IF list[i] \in K THEN <<list[i]>> ELSE <<>>]
  BY <1>1
<1>3. T \cap K = K
  OBVIOUS
<1> HIDE DEF K
<1>4. Lays(FlattenSeq([i \in DOMAIN list |-> IF list[i] \in K THEN <<list[i]>> ELSE <<>>]), T \cap K)
  BY LaysWhere
<1>5. Lays(FlattenSeq([i \in DOMAIN list |-> IF key[list[i]] = k THEN <<list[i]>> ELSE <<>>]), K)
  BY <1>2, <1>3, <1>4
<1> QED BY <1>5 DEF K, Part, Share

\* The sessions of a group as leaves, under a node of that key.
LEMMA LeafGroup ==
  ASSUME NEW T, NEW list, Lays(list, T), Distinct(T), T # {}, NEW id, id[1] # "session",
         NEW kind, kind # "session", NEW label, NEW n, n = Group(id, kind, label, Leaves(list))
  PROVE  /\ Sprout1(n, T, {id}) /\ n.id = id /\ n.latest \in Nat /\ n.kind = kind
         /\ n.children = Leaves(list)
<1> DEFINE q == Leaves(list)
<1>1. Grows0(q, T, {})
  BY LeavesGrow
<1>2. q # <<>> /\ n = Group(id, kind, label, q)
  BY <1>1, GrowsSomething
<1> HIDE DEF q
<1>3. n.id = id /\ n.kind = kind /\ n.children = q /\ Sprout1(n, T, {id})
  <2> DEFINE K == {}
             I == {id}
  <2>1. Grows0(q, T, K) /\ id \notin K /\ I = K \cup {id}
    BY <1>1
  <2> HIDE DEF K, I
  <2>2. Grows0(q, T, K) => Sprout1(n, T, I)
    BY <1>2, <2>1, GroupGrows
  <2>3. n.id = id /\ n.kind = kind /\ n.children = q
    BY <1>2, GroupFields
  <2> QED BY <2>1, <2>2, <2>3 DEF I
<1>6. n.latest \in Nat
  <2>1. Grown(n, T)
    BY <1>3, SproutsAreGrown
  <2> QED BY <2>1 DEF Grown
<1> QED BY <1>3, <1>6 DEF q

\* The parts of a list that keys make of it.
LEMMA PartsOfList ==
  ASSUME NEW T, NEW list, Lays(list, T), Distinct(T), NEW key, NEW k \in {key[s] : s \in T}
  PROVE  /\ Lays(Part(list, key, k), Share(T, key, k))
         /\ Share(T, key, k) # {} /\ Share(T, key, k) \subseteq T /\ Distinct(Share(T, key, k))
<1>1. Lays(Part(list, key, k), Share(T, key, k))
  BY PartLays
<1>2. Share(T, key, k) # {} /\ Share(T, key, k) \subseteq T
  BY DEF Share
<1>3. Distinct(Share(T, key, k))
  BY <1>2 DEF Distinct
<1> QED BY <1>1, <1>2, <1>3

\* The groups of the branches.
LEMMA BranchesGrow ==
  ASSUME NEW T, NEW list, Lays(list, T), Distinct(T), NEW a, NEW b, NEW w, a # "session"
  PROVE  LET r == branchNodes(<<a, b, w>>, list)
         IN  \E I : /\ Grows1(r, T, I) /\ \A i \in I : \E x : i = <<a, b, w, x>>
                    /\ \A n \in ToSet(r) : n.id \in I /\ n.kind # "session"
<1> DEFINE key == [s \in T |-> branchName(s)]
           V == {key[s] : s \in T}
           ks == KeysOf(list, key)
           piece(x) == Part(list, key, x)
           node == [x \in V |-> Group(<<a, b, w, x>>, "branch", x, Leaves(piece(x)))]
           q == [i \in DOMAIN ks |-> node[ks[i]]]
           S == [x \in V |-> Share(T, key, x)]
           I == [x \in V |-> {<<a, b, w, x>>}]
           N == {node[x] : x \in V}
           all == UNION {I[x] : x \in V}
           r == branchNodes(<<a, b, w>>, list)
<1>1. DOMAIN list = 1..Len(list) /\ \A i \in DOMAIN list : list[i] \in T /\ key[list[i]] = branchName(list[i])
  BY LaysShape
<1>2. Keys(Mapped(branchName, list)) = ks
  BY <1>1 DEF Mapped, KeysOf
<1>3. ASSUME NEW x PROVE Where(list, LAMBDA s : branchName(s) = x) = piece(x)
  BY <1>1 DEF Where, Part
<1>4. Lays(ks, V)
  BY KeyedKeys
<1>5. DOMAIN ks = 1..Len(ks) /\ \A i \in DOMAIN ks : ks[i] \in V
  BY <1>4, LaysShape
<1>6. r = ByLatest(q)
  <2> HIDE DEF ks, piece, V
  <2>2. \A i \in DOMAIN ks : q[i] = Group(<<a, b, w, ks[i]>>, "branch", ks[i], Leaves(piece(ks[i])))
    BY <1>5
  <2>3. \A i \in DOMAIN ks : Append(<<a, b, w>>, ks[i]) = <<a, b, w, ks[i]>>
    BY LongerIds
  <2>4. r = ByLatest([i \in DOMAIN ks |-> Group(Append(<<a, b, w>>, ks[i]), "branch", ks[i], Leaves(piece(ks[i])))])
    BY <1>2, <1>3 DEF branchNodes, Mapped
  <2>5. q = [i \in DOMAIN ks |-> Group(Append(<<a, b, w>>, ks[i]), "branch", ks[i], Leaves(piece(ks[i])))]
    BY <2>2, <2>3
  <2> QED BY <2>4, <2>5
<1>7. ASSUME NEW x \in V
      PROVE  /\ Sprout1(node[x], S[x], I[x]) /\ node[x].id = <<a, b, w, x>> /\ node[x].latest \in Nat
             /\ node[x].kind # "session"
  <2>1. Lays(piece(x), S[x]) /\ S[x] # {} /\ Distinct(S[x])
    BY PartsOfList, S[x] = Share(T, key, x)
  <2> DEFINE id == <<a, b, w, x>>
             n == node[x]
             kind == "branch"
  <2>2. n = Group(id, kind, x, Leaves(piece(x))) /\ I[x] = {id} /\ id[1] # "session" /\ kind # "session"
    OBVIOUS
  <2> HIDE DEF piece, S, I, node, id, n, V, kind
  <2>3. Sprout1(n, S[x], {id}) /\ n.id = id /\ n.latest \in Nat /\ n.kind = kind
    <3>1. Sprout1(n, S[x], {id})
      BY <2>1, <2>2, LeafGroup
    <3>2. n.id = id /\ n.kind = kind
      BY <2>2, GroupFields
    <3>3. n.latest \in Nat
      BY <3>1, SproutsAreGrown DEF Grown
    <3> QED BY <3>1, <3>2, <3>3
  <2> QED BY <2>2, <2>3 DEF id, n
<1>8. \A x, y \in V : node[x] = node[y] => x = y
  <2> HIDE DEF node
  <2>1. ASSUME NEW x \in V, NEW y \in V, node[x] = node[y] PROVE x = y
    <3>1. <<a, b, w, x>> = <<a, b, w, y>>
      BY <1>7, <2>1
    <3> QED BY <3>1
  <2> QED BY <2>1
<1>9. \A x, y \in V : x # y => I[x] \cap I[y] = {}
  OBVIOUS
<1>10. (\A x \in V : S[x] = Share(T, key, x)) /\ \A x \in V : node[x].latest \in Nat
  BY <1>7
<1>11. all = UNION {I[x] : x \in V} /\ N = {node[x] : x \in V} /\ Flourish1(V, node, S, I)
  BY <1>7 DEF Flourish1
<1>12. FromKeys(T, list, key, V, node, N, r)
  BY <1>6, <1>8, <1>10 DEF FromKeys
<1>13. (\A i \in all : \E x : i = <<a, b, w, x>>) /\ \A x \in V : <<a, b, w, x>> \in all
  OBVIOUS
<1> HIDE DEF V, ks, q, S, I, node, all, r, key, N
<1>14. ToSet(r) = N
  BY <1>12, KeyedNodes
<1>15. ASSUME NEW n \in ToSet(r) PROVE n.id \in all /\ n.kind # "session"
  <2>1. PICK x \in V : n = node[x]
    BY <1>11, <1>14, <1>15
  <2> QED BY <1>7, <1>13, <2>1
<1>16. Grows1(r, T, all)
  BY <1>9, <1>10, <1>11, <1>12, KeyedGrows
<1> QED BY <1>13, <1>15, <1>16 DEF r

\* A node alone.
LEMMA OneGrows ==
  ASSUME NEW n, NEW S, NEW I, Sprout2(n, S, I)
  PROVE  Grows2(<<n>>, S, I) /\ ToSet(<<n>>) = {n}
<1> DEFINE P == [m \in {n} |-> S]
           J == [m \in {n} |-> I]
<1>1. Split({n}, P, S) /\ Split({n}, J, I) /\ \A m \in {n} : Sprout2(m, P[m], J[m])
  BY DEF Split
<1>2. Grove2({n}, S, I)
  <2> HIDE DEF P, J
  <2> QED BY <1>1 DEF Grove2
<1>3. Lays(<<n>>, {n})
  BY LaysFew
<1>4. ToSet(<<n>>) = {n}
  BY <1>3, LaysShape
<1> QED BY <1>2, <1>3, <1>4 DEF Grows2

\* The nodes of a worktree.
InWorktree(r, T, a, b, w, I) ==
  /\ Grows2(r, T, I)
  /\ \A i \in I : i[1] = a /\ i[2] = b /\ i[3] = w /\ i # <<a, b>>
  /\ \A n \in ToSet(r) : n.id \in I /\ n.kind # "session"

\* The nodes of a worktree hold its sessions, with ids that are its own.
LEMMA WorktreeGrows ==
  ASSUME NEW T, NEW list, Lays(list, T), Distinct(T), T # {}, NEW workspace, NEW a, NEW b, NEW w, a # "session"
  PROVE  \E I : InWorktree(WorktreeNodes(workspace, <<a, b, w>>, list), T, a, b, w, I)
<1> DEFINE id == <<a, b, w>>
           isMain == list[1].worktree = workspace
           branchLevel == Cardinality(Branches(list)) > 1
           branches == branchNodes(id, list)
           under == IF branchLevel THEN branches ELSE Leaves(list)
           label == IF isMain THEN "main" ELSE list[1].worktree
           n == Group(id, "worktree", label, under)
           r == WorktreeNodes(workspace, id, list)
<1>1. PICK I : /\ Grows1(branches, T, I) /\ \A i \in I : \E x : i = <<a, b, w, x>>
               /\ \A m \in ToSet(branches) : m.id \in I /\ m.kind # "session"
  BY BranchesGrow
<1>2. Grows0(Leaves(list), T, {})
  BY LeavesGrow
<1>3. Grows1(Leaves(list), T, {})
  BY <1>2, GrowsMore
<1>4. r = IF branchLevel /\ isMain THEN branches ELSE <<n>>
  BY DEF WorktreeNodes
<1>5. \A x : LET i == <<a, b, w, x>> IN i[1] = a /\ i[2] = b /\ i[3] = w /\ i # <<a, b>> /\ i # id
  OBVIOUS
<1>6. id[1] = a /\ id[2] = b /\ id[3] = w /\ id # <<a, b>>
  OBVIOUS
<1>7. ASSUME branchLevel, isMain PROVE \E K : InWorktree(r, T, a, b, w, K)
  <2>1. r = branches
    BY <1>4, <1>7
  <2>2. Grows2(branches, T, I)
    BY <1>1, GrowsMore
  <2>3. \A i \in I : i[1] = a /\ i[2] = b /\ i[3] = w /\ i # <<a, b>>
    BY <1>1, <1>5
  <2> HIDE DEF r, branches
  <2>4. InWorktree(r, T, a, b, w, I)
    BY <1>1, <2>1, <2>2, <2>3 DEF InWorktree
  <2> QED BY <2>4
<1>8. ASSUME ~(branchLevel /\ isMain) PROVE \E K : InWorktree(r, T, a, b, w, K)
  <2> DEFINE J == IF branchLevel THEN I ELSE {}
             K == J \cup {id}
  <2>1. Grows1(under, T, J) /\ \A i \in J : \E x : i = <<a, b, w, x>>
    BY <1>1, <1>3
  <2>2. r = <<n>>
    BY <1>4, <1>8
  <2>3. id \notin J
    BY <1>5, <2>1
  <2> HIDE DEF J, under, label
  <2>4. under # <<>>
    BY <2>1, GrowsSomething
  <2>5. n = Group(id, "worktree", label, under) /\ id[1] # "session" /\ K = J \cup {id}
    BY <1>6
  <2> HIDE DEF n, id, K
  <2>6. Sprout2(n, T, K)
    BY <2>1, <2>3, <2>4, <2>5, GroupGrows
  <2>7. n.id = id /\ n.kind = "worktree"
    BY <2>5, GroupFields
  <2>8. Grows2(r, T, K) /\ ToSet(r) = {n}
    BY <2>2, <2>6, OneGrows
  <2>9. \A i \in K : i[1] = a /\ i[2] = b /\ i[3] = w /\ i # <<a, b>>
    BY <1>5, <1>6, <2>1 DEF K
  <2>10. \A m \in ToSet(r) : m.id \in K /\ m.kind # "session"
    BY <2>7, <2>8 DEF K
  <2>11. InWorktree(r, T, a, b, w, K)
    BY <2>8, <2>9, <2>10 DEF InWorktree
  <2> QED BY <2>11
<1>9. \E K : InWorktree(r, T, a, b, w, K)
  BY <1>7, <1>8
<1> QED BY <1>9 DEF r

\* What is under a workspace.
InWorkspace(r, T, a, b, I) ==
  Grows2(r, T, I) /\ \A i \in I : i[1] = a /\ i[2] = b /\ i # <<a, b>>

\* Two filters of which one passes what the other does not.
Passed(r, K) == FlattenSeq([i \in DOMAIN r |-> IF r[i] \in K THEN <<r[i]>> ELSE <<>>])

\* What two opposite filters pass is everything, once.
LEMMA LaysTwice ==
  ASSUME NEW N, NEW r, Lays(r, N), NEW K, NEW L, L = N \ K
  PROVE  Lays(Passed(r, K) \o Passed(r, L), N)
<1> DEFINE p == Passed(r, K)
           q == Passed(r, L)
<1>1. Lays(p, N \cap K) /\ Lays(q, N \cap L)
  BY LaysWhere DEF Passed
<1>2. (N \cap K) \cap (N \cap L) = {} /\ (N \cap K) \cup (N \cap L) = N
  OBVIOUS
<1> HIDE DEF p, q
<1>3. Lays(p \o q, (N \cap K) \cup (N \cap L))
  BY <1>1, <1>2, LaysConcat
<1>4. Lays(p \o q, N)
  BY <1>2, <1>3
<1> QED BY <1>4 DEF p, q

\* The nodes under a workspace hold its sessions, with ids that are its own.
LEMMA WorkspaceGrows ==
  ASSUME NEW T, NEW list, Lays(list, T), Distinct(T), NEW workspace, NEW a, NEW b, a # "session"
  PROVE  \E I : InWorkspace(WorkspaceChildren(workspace, <<a, b>>, list), T, a, b, I)
<1> DEFINE key == [s \in T |-> s.worktree]
           V == {key[s] : s \in T}
           ks == KeysOf(list, key)
           piece(w) == Part(list, key, w)
           shownRows == [w \in V |-> WorktreeNodes(workspace, <<a, b, w>>, piece(w))]
           S == [w \in V |-> Share(T, key, w)]
           I == [w \in V |-> CHOOSE K : InWorktree(shownRows[w], S[w], a, b, w, K)]
           N == [w \in V |-> ToSet(shownRows[w])]
           all == UNION {N[w] : w \in V}
           U == UNION {I[w] : w \in V}
           q == [i \in DOMAIN ks |-> shownRows[ks[i]]]
           f == ByLatest(FlattenSeq(q))
           r == WorkspaceChildren(workspace, <<a, b>>, list)
<1>1. DOMAIN list = 1..Len(list) /\ \A i \in DOMAIN list : list[i] \in T /\ key[list[i]] = list[i].worktree
  BY LaysShape
<1>2. Keys(Mapped(LAMBDA s : s.worktree, list)) = ks
  BY <1>1 DEF Mapped, KeysOf
<1>3. ASSUME NEW w PROVE Where(list, LAMBDA s : s.worktree = w) = piece(w)
  BY <1>1 DEF Where, Part
<1>4. Lays(ks, V)
  BY KeyedKeys
<1>5. Len(ks) \in Nat /\ DOMAIN ks = 1..Len(ks) /\ \A i \in DOMAIN ks : ks[i] \in V
  BY <1>4, LaysShape
<1>6. ASSUME NEW w \in V PROVE InWorktree(shownRows[w], S[w], a, b, w, I[w])
  <2>1. Lays(piece(w), S[w]) /\ S[w] # {} /\ Distinct(S[w])
    BY PartsOfList, S[w] = Share(T, key, w)
  <2>2. shownRows[w] = WorktreeNodes(workspace, <<a, b, w>>, piece(w))
    OBVIOUS
  <2>3. I[w] = CHOOSE K : InWorktree(shownRows[w], S[w], a, b, w, K)
    OBVIOUS
  <2> HIDE DEF piece, S, shownRows, I
  <2>4. \E K : InWorktree(WorktreeNodes(workspace, <<a, b, w>>, piece(w)), S[w], a, b, w, K)
    BY <2>1, WorktreeGrows
  <2>5. \E K : InWorktree(shownRows[w], S[w], a, b, w, K)
    BY <2>2, <2>4
  <2> QED BY <2>3, <2>5
<1>7. FlattenSeq([k \in DOMAIN ks |-> WorktreeNodes(workspace, Append(<<a, b>>, ks[k]), piece(ks[k]))])
        = FlattenSeq(q)
  <2>1. \A i \in DOMAIN ks : Append(<<a, b>>, ks[i]) = <<a, b, ks[i]>>
    BY LongerIds
  <2> HIDE DEF ks, piece, V
  <2>2. \A i \in DOMAIN ks : q[i] = WorktreeNodes(workspace, Append(<<a, b>>, ks[i]), piece(ks[i]))
    BY <1>5, <2>1
  <2> QED BY <2>2
<1>8. r = Where(f, LAMBDA n : n.label = "main") \o Where(f, LAMBDA n : n.label # "main")
  <2> HIDE DEF ks, piece, f, q
  <2>1. f = ByLatest(FlattenSeq([k \in DOMAIN ks |-> WorktreeNodes(workspace, Append(<<a, b>>, ks[k]), piece(ks[k]))]))
    BY <1>7 DEF f
  <2> QED BY <1>2, <1>3, <2>1 DEF WorkspaceChildren, Mapped
<1>9. \A w \in V : N[w] = ToSet(shownRows[w]) /\ S[w] = Share(T, key, w)
  OBVIOUS
<1>10. T = UNION {S[w] : w \in V}
  <2>1. \A s \in T : key[s] \in V /\ s \in S[key[s]]
    BY DEF Share
  <2>2. \A w \in V : S[w] \subseteq T
    BY DEF Share
  <2> HIDE DEF S, V, key
  <2> QED BY <2>1, <2>2
<1> HIDE DEF shownRows, I, N, V, key, S
<1>11. \A w \in V : Grove2(N[w], S[w], I[w]) /\ Lays(shownRows[w], N[w])
  BY <1>6, <1>9 DEF InWorktree, Grows2
<1>12. \A w \in V : \A n \in N[w] : n.id \in I[w]
  BY <1>6, <1>9 DEF InWorktree
<1>13. \A v, w \in V : v # w => S[v] \cap S[w] = {} /\ I[v] \cap I[w] = {}
  <2>1. \A v, w \in V : v # w => S[v] \cap S[w] = {}
    BY <1>9 DEF Share
  <2>2. \A w \in V : \A i \in I[w] : i[3] = w
    BY <1>6 DEF InWorktree
  <2> QED BY <2>1, <2>2
<1>14. all = UNION {N[w] : w \in V} /\ U = UNION {I[w] : w \in V}
  OBVIOUS
<1>15. \A i \in U : i[1] = a /\ i[2] = b /\ i # <<a, b>>
  BY <1>6 DEF InWorktree
<1> HIDE DEF all, U
<1>16. Grove2(all, T, U) /\ \A v, w \in V : v # w => N[v] \cap N[w] = {}
  <2>1. Grove2(all, T, U)
    <3>1. Beside(V, N, S, I, all, T, U)
      BY <1>10, <1>11, <1>12, <1>13, <1>14 DEF Beside
    <3> QED BY <3>1, GrovesTogether
  <2>2. \A v, w \in V : v # w => N[v] \cap N[w] = {}
    BY <1>12, <1>13
  <2> QED BY <2>1, <2>2
<1>17. Lays(FlattenSeq(q), all)
  <2> DEFINE m == Len(ks)
             M == [i \in 1..m |-> N[ks[i]]]
  <2> HIDE DEF ks
  <2>1. m \in Nat /\ q = [i \in 1..m |-> q[i]] /\ \A i \in 1..m : q[i] = shownRows[ks[i]] /\ M[i] = N[ks[i]]
    BY <1>5
  <2>2. \A i \in 1..m : Lays(q[i], M[i])
    BY <1>5, <1>11, <2>1
  <2>3. \A i, j \in 1..m : i # j => ks[i] # ks[j]
    BY <1>4, <1>5 DEF Lays
  <2>4. \A i, j \in 1..m : i # j => M[i] \cap M[j] = {}
    BY <1>5, <1>16, <2>1, <2>3
  <2>5. UNION {M[i] : i \in 1..m} = all
    <3>1. \A w \in V : \E i \in 1..m : ks[i] = w
      BY <1>4, <1>5 DEF Lays
    <3> QED BY <1>5, <1>14, <2>1, <3>1
  <2> HIDE DEF q, m, M
  <2>6. Lays(FlattenSeq(q), UNION {M[i] : i \in 1..m})
    BY <2>1, <2>2, <2>4, LaysFlatten, SMTT(30)
  <2> QED BY <2>5, <2>6
<1>18. \A n \in all : n.latest \in Nat
  <2>1. PICK P, J : \A n \in all : Sprout2(n, P[n], J[n])
    BY <1>16 DEF Grove2
  <2>2. \A n \in all : Grown(n, P[n])
    BY <2>1, SproutsAreGrown
  <2> QED BY <2>2 DEF Grown
<1>19. Lays(f, all)
  <2> HIDE DEF q
  <2> QED BY <1>17, <1>18, ByLatestLays
<1> HIDE DEF f
<1>20. Lays(r, all)
  <2> DEFINE K == {n \in all : n.label = "main"}
             L == all \ K
  <2>1. DOMAIN f = 1..Len(f) /\ \A i \in DOMAIN f : f[i] \in all
    BY <1>19, LaysShape
  <2>2. Where(f, LAMBDA n : n.label = "main") = Passed(f, K)
    BY <2>1 DEF Where, Passed
  <2>3. Where(f, LAMBDA n : n.label # "main") = Passed(f, L)
    BY <2>1 DEF Where, Passed
  <2>4. L = all \ K
    OBVIOUS
  <2> HIDE DEF K, L
  <2>5. Lays(Passed(f, K) \o Passed(f, L), all)
    BY <1>19, <2>4, LaysTwice
  <2> QED BY <1>8, <2>2, <2>3, <2>5
<1>21. ToSet(r) = all
  BY <1>20, LaysShape
<1>22. InWorkspace(r, T, a, b, U)
  BY <1>15, <1>16, <1>20, <1>21 DEF InWorkspace, Grows2
<1>23. \E K : InWorkspace(r, T, a, b, K)
  BY <1>22
<1> QED BY <1>23 DEF r

\* A workspace with what is under it.
OfWorkspace(n, S, k, I) ==
  /\ Sprout3(n, S, I) /\ \A i \in I : i[1] = k[1] /\ i[2] = k[2]
  /\ n.id = k /\ n.kind # "session" /\ n.latest \in Nat

\* So does a workspace, inside git or not.
LEMMA OneWorkspace ==
  ASSUME NEW T, NEW list, Lays(list, T), Distinct(T), T # {}, NEW a, NEW b, a # "session",
         NEW kids, kids = (IF list[1].workspace = Nil THEN Leaves(list) ELSE WorkspaceChildren(b, <<a, b>>, list)),
         NEW n, n = Group(<<a, b>>, "workspace", b, kids)
  PROVE  \E I : OfWorkspace(n, T, <<a, b>>, I)
<1> DEFINE id == <<a, b>>
<1>1. \E K : Grows2(kids, T, K) /\ \A i \in K : i[1] = a /\ i[2] = b /\ i # id
  <2>1. CASE list[1].workspace = Nil
    <3> DEFINE K == {}
    <3>1. kids = Leaves(list) /\ \A i \in K : i[1] = a /\ i[2] = b /\ i # id
      BY <2>1
    <3>2. Grows0(kids, T, K)
      BY <3>1, LeavesGrow
    <3> HIDE DEF K
    <3>3. Grows2(kids, T, K)
      BY <3>2, GrowsMore
    <3> QED BY <3>1, <3>3
  <2>2. CASE list[1].workspace # Nil
    <3>1. kids = WorkspaceChildren(b, id, list)
      BY <2>2
    <3>2. PICK K : InWorkspace(WorkspaceChildren(b, id, list), T, a, b, K)
      BY WorkspaceGrows
    <3> HIDE DEF id
    <3> QED BY <3>1, <3>2 DEF InWorkspace, id
  <2> QED BY <2>1, <2>2
<1>2. PICK K : Grows2(kids, T, K) /\ \A i \in K : i[1] = a /\ i[2] = b /\ i # id
  BY <1>1
<1>3. id[1] = a /\ id[2] = b /\ n = Group(id, "workspace", b, kids)
  OBVIOUS
<1> HIDE DEF id
<1> DEFINE I == K \cup {id}
<1>4. kids # <<>>
  BY <1>2, GrowsSomething
<1>5. id \notin K /\ I = K \cup {id} /\ id[1] # "session"
  BY <1>2, <1>3
<1> HIDE DEF I
<1>6. Sprout3(n, T, I)
  BY <1>2, <1>3, <1>4, <1>5, GroupGrows
<1>7. n.id = id /\ n.kind = "workspace"
  BY <1>3, GroupFields
<1>8. n.latest \in Nat
  <2>1. Grown(n, T)
    BY <1>6, SproutsAreGrown
  <2> QED BY <2>1 DEF Grown
<1>9. \A i \in I : i[1] = id[1] /\ i[2] = id[2]
  BY <1>2, <1>3, <1>5
<1>10. OfWorkspace(n, T, id, I)
  BY <1>6, <1>7, <1>8, <1>9 DEF OfWorkspace
<1>11. \E J : OfWorkspace(n, T, id, J)
  BY <1>10
<1> QED BY <1>11 DEF id

\* A tree: groups only, but for the one without any.
LEMMA ProjectGrows ==
  ASSUME NEW T, NEW list, Lays(rootSessions(list), T), Distinct(T)
  PROVE  \E I : Grows3(buildProjectTree(list), T, I) /\ \A n \in ToSet(buildProjectTree(list)) : n.kind # "session"
<1> DEFINE roots == rootSessions(list)
           key == [s \in T |-> workspaceKey(s)]
           V == {key[s] : s \in T}
           ks == KeysOf(roots, key)
           piece(k) == Part(roots, key, k)
           kids(k) == IF piece(k)[1].workspace = Nil THEN Leaves(piece(k)) ELSE WorkspaceChildren(k[2], k, piece(k))
           node == [k \in V |-> Group(k, "workspace", k[2], kids(k))]
           S == [k \in V |-> Share(T, key, k)]
           I == [k \in V |-> CHOOSE K : OfWorkspace(node[k], S[k], k, K)]
           N == {node[k] : k \in V}
           all == UNION {I[k] : k \in V}
           q == [i \in DOMAIN ks |-> node[ks[i]]]
           r == buildProjectTree(list)
<1>0. Lays(roots, T)
  OBVIOUS
<1>1. DOMAIN roots = 1..Len(roots) /\ \A i \in DOMAIN roots : roots[i] \in T /\ key[roots[i]] = workspaceKey(roots[i])
  BY <1>0, LaysShape
<1>2. Keys(Mapped(workspaceKey, roots)) = ks
  BY <1>1 DEF Mapped, KeysOf
<1>3. ASSUME NEW k PROVE Where(roots, LAMBDA s : workspaceKey(s) = k) = piece(k)
  BY <1>1 DEF Where, Part
<1>4. Lays(ks, V)
  BY KeyedKeys
<1>5. DOMAIN ks = 1..Len(ks) /\ \A i \in DOMAIN ks : ks[i] \in V
  BY <1>4, LaysShape
<1>6. r = ByLatest(q)
  <2> HIDE DEF ks, piece, V
  <2>1. \A i \in DOMAIN ks : q[i] = Group(ks[i], "workspace", ks[i][2], kids(ks[i]))
    BY <1>5
  <2>2. q = [i \in DOMAIN ks |-> Group(ks[i], "workspace", ks[i][2], kids(ks[i]))]
    BY <2>1
  <2> DEFINE group(k) == Where(roots, LAMBDA s : workspaceKey(s) = k)
             kids1(k) == IF group(k)[1].workspace = Nil THEN Leaves(group(k))
                         ELSE WorkspaceChildren(k[2], k, group(k))
             kk == Keys(Mapped(workspaceKey, roots))
  <2>3. r = ByLatest([i \in DOMAIN kk |-> Group(kk[i], "workspace", kk[i][2], kids1(kk[i]))])
    BY DEF buildProjectTree, Mapped
  <2>4. ASSUME NEW k PROVE kids1(k) = kids(k)
    <3>1. group(k) = piece(k)
      BY <1>3
    <3> HIDE DEF group
    <3> QED BY <3>1
  <2> HIDE DEF kids, kids1, kk
  <2>6. kk = ks
    BY <1>2 DEF kk
  <2>5. [i \in DOMAIN ks |-> Group(ks[i], "workspace", ks[i][2], kids1(ks[i]))]
          = [i \in DOMAIN ks |-> Group(ks[i], "workspace", ks[i][2], kids(ks[i]))]
    BY <2>4
  <2> QED BY <2>2, <2>3, <2>5, <2>6
<1> HIDE DEF roots
<1>7. ASSUME NEW k \in V PROVE k = <<k[1], k[2]>> /\ k[1] # "session"
  BY DEF workspaceKey
<1>8. ASSUME NEW k \in V PROVE OfWorkspace(node[k], S[k], k, I[k])
  <2>1. Lays(piece(k), S[k]) /\ S[k] # {} /\ Distinct(S[k])
    BY <1>0, PartsOfList, S[k] = Share(T, key, k)
  <2> DEFINE kid == kids(k)
             a == k[1]
             b == k[2]
             list1 == piece(k)
  <2>2. node[k] = Group(k, "workspace", k[2], kid)
    OBVIOUS
  <2>3. I[k] = CHOOSE K : OfWorkspace(node[k], S[k], k, K)
    OBVIOUS
  <2>4. kid = IF list1[1].workspace = Nil THEN Leaves(list1) ELSE WorkspaceChildren(b, <<a, b>>, list1)
    BY <1>7
  <2>5. node[k] = Group(<<a, b>>, "workspace", b, kid) /\ a # "session"
    BY <1>7
  <2> HIDE DEF piece, S, node, I, kid, list1, V
  <2>6. \E K : OfWorkspace(node[k], S[k], <<a, b>>, K)
    BY <2>1, <2>4, <2>5, OneWorkspace DEF list1
  <2>7. <<a, b>> = k
    BY <1>7
  <2>8. \E K : OfWorkspace(node[k], S[k], k, K)
    BY <2>6, <2>7
  <2> QED BY <2>3, <2>8
<1> HIDE DEF node, I, kids
<1>9. \A k \in V : S[k] = Share(T, key, k)
  OBVIOUS
<1>10. \A k, l \in V : node[k] = node[l] => k = l
  <2>1. ASSUME NEW k \in V, NEW l \in V, node[k] = node[l] PROVE k = l
    <3>1. node[k].id = k /\ node[l].id = l
      BY <1>8 DEF OfWorkspace
    <3> QED BY <2>1, <3>1
  <2> QED BY <2>1
<1>11. \A k, l \in V : k # l => I[k] \cap I[l] = {}
  <2>1. ASSUME NEW k \in V, NEW l \in V, NEW i \in I[k] \cap I[l] PROVE k = l
    <3>1. i[1] = k[1] /\ i[2] = k[2] /\ i[1] = l[1] /\ i[2] = l[2]
      BY <1>8 DEF OfWorkspace
    <3> QED BY <1>7, <3>1
  <2> QED BY <2>1
<1>12. FromKeys(T, roots, key, V, node, N, r)
  BY <1>0, <1>6, <1>8, <1>10 DEF FromKeys, OfWorkspace
<1>13. Flourish3(V, node, S, I)
  BY <1>8 DEF Flourish3, OfWorkspace
<1>14. all = UNION {I[k] : k \in V}
  OBVIOUS
<1>15. ToSet(r) = N
  BY <1>12, KeyedNodes
<1>16. ASSUME NEW n \in ToSet(r) PROVE n.kind # "session"
  <2>1. PICK k \in V : n = node[k]
    BY <1>15, <1>16
  <2> QED BY <1>8, <2>1 DEF OfWorkspace
<1> HIDE DEF S, all, N, r, V, key
<1>17. Grows3(r, T, all)
  BY <1>9, <1>11, <1>12, <1>13, <1>14, KeyedGrows
<1> QED BY <1>16, <1>17 DEF r

\* A tree whose first session is one of the latest, under one group at most.
LeadsWith(r, s) ==
  \/ r[1] = sessionNode(s)
  \/ /\ r[1].kind # "session" /\ r[1].children[1] = sessionNode(s)
     /\ \A c \in ToSet(r[1].children) : c.kind = "session"
IsLatestOf(s, T) == s \in T /\ \A t \in T : s.updated >= t.updated

\* A group of leaves is as late as its first.
LEMMA LeafGroupLeads ==
  ASSUME NEW T, NEW list, Lays(list, T), Distinct(T), T # {}, NEW id, id[1] # "session",
         NEW kind, kind # "session", NEW label, NEW n, n = Group(id, kind, label, Leaves(list))
  PROVE  \E s \in T : /\ IsLatestOf(s, T) /\ n.latest = s.updated
                      /\ n.children[1] = sessionNode(s)
                      /\ \A c \in ToSet(n.children) : c.kind = "session"
<1> DEFINE C == {sessionNode(s) : s \in T}
           q == Leaves(list)
           s1 == byRecent(list)[1]
<1>1. s1 \in T /\ \A s \in T : s1.updated >= s.updated
  BY byRecentLays
<1>2. Lays(q, C) /\ q[1] = sessionNode(s1) /\ Grows0(q, T, {})
  BY LeavesGrow
<1>3. n.children = q
  BY GroupFields
<1>4. ToSet(q) = C
  BY <1>2, LaysShape
<1>5. \A s \in T : sessionNode(s).kind = "session" /\ sessionNode(s).latest = s.updated
  BY DEF sessionNode
<1>6. n.latest = s1.updated
  <2>1. PICK P, J : Split(C, P, T) /\ \A c \in C : Sprout0(c, P[c], J[c])
    BY <1>2, <1>4 DEF Grows0, Grove0
  <2>2. \A c \in C : Grown(c, P[c])
    BY <2>1, SproutsAreGrown
  <2>3. C # {} /\ n = Group(id, kind, label, q)
    OBVIOUS
  <2> HIDE DEF C, q
  <2>4. (\E c \in C : n.latest = c.latest) /\ \A c \in C : n.latest >= c.latest
    BY <1>2, <2>1, <2>2, <2>3, GroupIsStem
  <2>5. PICK s \in T : n.latest = s.updated
    BY <1>5, <2>4 DEF C
  <2>6. sessionNode(s1) \in C
    BY <1>1 DEF C
  <2>7. n.latest >= s1.updated
    BY <1>1, <1>5, <2>4, <2>6
  <2> QED BY <1>1, <2>5, <2>7 DEF Distinct
<1>7. \A c \in ToSet(n.children) : c.kind = "session"
  BY <1>3, <1>4, <1>5
<1>8. IsLatestOf(s1, T) /\ s1 \in T
  BY <1>1 DEF IsLatestOf
<1> HIDE DEF s1, C, q
<1> QED BY <1>2, <1>3, <1>6, <1>7, <1>8

\* Grouped by repository or directory.
LEMMA GroupsGrow ==
  ASSUME NEW T, NEW list, Lays(rootSessions(list), T), Distinct(T), NEW mode, mode # "none"
  PROVE  /\ \E I : Grows3(buildTree(list, mode), T, I)
         /\ \A n \in ToSet(buildTree(list, mode)) : n.kind # "session"
         /\ T # {} => \E s \in T : IsLatestOf(s, T) /\ LeadsWith(buildTree(list, mode), s)
<1> DEFINE roots == rootSessions(list)
           keyOf(s) == IF mode = "cwd" THEN s.cwd ELSE s.repo
           key == [s \in T |-> keyOf(s)]
           V == {key[s] : s \in T}
           ks == KeysOf(roots, key)
           piece(k) == Part(roots, key, k)
           node == [k \in V |-> Group(<<"group", k>>, "group", k, Leaves(piece(k)))]
           S == [k \in V |-> Share(T, key, k)]
           I == [k \in V |-> {<<"group", k>>}]
           N == {node[k] : k \in V}
           all == UNION {I[k] : k \in V}
           q == [i \in DOMAIN ks |-> node[ks[i]]]
           r == buildTree(list, mode)
<1>0. Lays(roots, T)
  OBVIOUS
<1>1. DOMAIN roots = 1..Len(roots) /\ \A i \in DOMAIN roots : roots[i] \in T /\ key[roots[i]] = keyOf(roots[i])
  BY <1>0, LaysShape
<1>2. Keys(Mapped(keyOf, roots)) = ks
  BY <1>1 DEF Mapped, KeysOf
<1>3. ASSUME NEW k PROVE Where(roots, LAMBDA s : keyOf(s) = k) = piece(k)
  BY <1>1 DEF Where, Part
<1>4. Lays(ks, V)
  BY KeyedKeys
<1>5. DOMAIN ks = 1..Len(ks) /\ \A i \in DOMAIN ks : ks[i] \in V
  BY <1>4, LaysShape
<1>6. r = ByLatest(q)
  <2> HIDE DEF ks, piece, V
  <2>1. \A i \in DOMAIN ks : q[i] = Group(<<"group", ks[i]>>, "group", ks[i], Leaves(piece(ks[i])))
    BY <1>5
  <2>2. q = [i \in DOMAIN ks |-> Group(<<"group", ks[i]>>, "group", ks[i], Leaves(piece(ks[i])))]
    BY <2>1
  <2> DEFINE group(k) == Where(roots, LAMBDA s : keyOf(s) = k)
             kk == Keys(Mapped(keyOf, roots))
  <2>3. r = ByLatest([i \in DOMAIN kk |-> Group(<<"group", kk[i]>>, "group", kk[i], Leaves(group(kk[i])))])
    BY DEF buildTree, Mapped
  <2>4. ASSUME NEW k PROVE group(k) = piece(k)
    BY <1>3
  <2> HIDE DEF group, kk
  <2>5. [i \in DOMAIN ks |-> Group(<<"group", ks[i]>>, "group", ks[i], Leaves(group(ks[i])))]
          = [i \in DOMAIN ks |-> Group(<<"group", ks[i]>>, "group", ks[i], Leaves(piece(ks[i])))]
    BY <2>4
  <2>6. kk = ks
    BY <1>2 DEF kk
  <2> QED BY <2>2, <2>3, <2>5, <2>6
<1> HIDE DEF roots
<1>7. ASSUME NEW k \in V
      PROVE  /\ Sprout1(node[k], S[k], I[k]) /\ node[k].id = <<"group", k>> /\ node[k].latest \in Nat
             /\ node[k].kind # "session"
             /\ \E s \in S[k] : /\ IsLatestOf(s, S[k]) /\ node[k].latest = s.updated
                                /\ node[k].children[1] = sessionNode(s)
                                /\ \A c \in ToSet(node[k].children) : c.kind = "session"
  <2>1. Lays(piece(k), S[k]) /\ S[k] # {} /\ Distinct(S[k])
    BY <1>0, PartsOfList, S[k] = Share(T, key, k)
  <2> DEFINE id == <<"group", k>>
             n == node[k]
             kind == "group"
  <2>2. n = Group(id, kind, k, Leaves(piece(k))) /\ I[k] = {id} /\ id[1] # "session" /\ kind # "session"
    OBVIOUS
  <2> HIDE DEF piece, S, I, node, id, n, V, kind
  <2>3. Sprout1(n, S[k], {id}) /\ n.id = id /\ n.latest \in Nat /\ n.kind = kind
    <3>1. Sprout1(n, S[k], {id})
      BY <2>1, <2>2, LeafGroup
    <3>2. n.id = id /\ n.kind = kind
      BY <2>2, GroupFields
    <3>3. n.latest \in Nat
      BY <3>1, SproutsAreGrown DEF Grown
    <3> QED BY <3>1, <3>2, <3>3
  <2>4. \E s \in S[k] : /\ IsLatestOf(s, S[k]) /\ n.latest = s.updated
                        /\ n.children[1] = sessionNode(s)
                        /\ \A c \in ToSet(n.children) : c.kind = "session"
    BY <2>1, <2>2, LeafGroupLeads
  <2> QED BY <2>2, <2>3, <2>4 DEF id, n
<1>8. \A k, l \in V : node[k] = node[l] => k = l
  <2> HIDE DEF node
  <2>1. ASSUME NEW k \in V, NEW l \in V, node[k] = node[l] PROVE k = l
    <3>1. node[k].id = <<"group", k>> /\ node[l].id = <<"group", l>>
      BY <1>7
    <3>2. <<"group", k>> = <<"group", l>>
      BY <2>1, <3>1
    <3> QED BY <3>2
  <2> QED BY <2>1
<1>9. \A k, l \in V : k # l => I[k] \cap I[l] = {}
  OBVIOUS
<1>10. (\A k \in V : S[k] = Share(T, key, k)) /\ \A k \in V : node[k].latest \in Nat
  BY <1>7
<1>11. all = UNION {I[k] : k \in V} /\ N = {node[k] : k \in V} /\ Flourish3(V, node, S, I)
  BY <1>7, GrovesGrow DEF Flourish3
<1>12. FromKeys(T, roots, key, V, node, N, r)
  BY <1>0, <1>6, <1>8, <1>10 DEF FromKeys
<1>13. \A s \in T : key[s] \in V /\ s \in S[key[s]]
  BY DEF Share
<1>14. \A k \in V : S[k] \subseteq T
  BY DEF Share
<1> HIDE DEF V, ks, q, S, I, node, all, r, key, N
<1>15. Lays(r, N) /\ ToSet(r) = N /\ \A k \in V : r[1] \in N /\ r[1].latest >= node[k].latest
  BY <1>12, KeyedNodes
<1>16. Grows3(r, T, all)
  BY <1>9, <1>10, <1>11, <1>12, KeyedGrows
<1>17. ASSUME NEW n \in ToSet(r) PROVE n.kind # "session"
  <2>1. PICK k \in V : n = node[k]
    BY <1>11, <1>15, <1>17
  <2> QED BY <1>7, <2>1
<1>18. ASSUME T # {} PROVE \E s \in T : IsLatestOf(s, T) /\ LeadsWith(r, s)
  <2>1. PICK t0 \in T : TRUE
    BY <1>18
  <2>2. r[1] \in N
    BY <1>13, <1>15, <2>1
  <2>3. PICK k \in V : r[1] = node[k]
    BY <1>11, <2>2
  <2>4. PICK s \in S[k] : /\ IsLatestOf(s, S[k]) /\ node[k].latest = s.updated
                          /\ node[k].children[1] = sessionNode(s)
                          /\ \A c \in ToSet(node[k].children) : c.kind = "session"
    BY <1>7
  <2>5. ASSUME NEW t \in T PROVE s.updated >= t.updated
    <3>1. PICK u \in S[key[t]] : IsLatestOf(u, S[key[t]]) /\ node[key[t]].latest = u.updated
      BY <1>7, <1>13
    <3>2. u.updated >= t.updated
      BY <1>13, <3>1 DEF IsLatestOf
    <3>3. s.updated >= u.updated
      BY <1>13, <1>15, <2>3, <2>4, <3>1
    <3>4. s.updated \in Nat /\ u.updated \in Nat /\ t.updated \in Nat
      BY <1>13, <1>14, <3>1 DEF Distinct
    <3> QED BY <3>2, <3>3, <3>4
  <2>6. s \in T /\ IsLatestOf(s, T)
    BY <1>14, <2>5 DEF IsLatestOf
  <2>7. LeadsWith(r, s)
    BY <1>7, <2>3, <2>4 DEF LeadsWith
  <2> QED BY <2>6, <2>7
<1> QED BY <1>16, <1>17, <1>18 DEF r

\* Without groups.
LEMMA LeavesOnly ==
  ASSUME NEW T, NEW list, Lays(rootSessions(list), T), Distinct(T)
  PROVE  /\ Grows0(buildTree(list, "none"), T, {})
         /\ \A n \in ToSet(buildTree(list, "none")) : n.kind = "session"
         /\ T # {} => \E s \in T : IsLatestOf(s, T) /\ LeadsWith(buildTree(list, "none"), s)
<1> DEFINE r == buildTree(list, "none")
           roots == rootSessions(list)
           s1 == byRecent(roots)[1]
<1>1. r = Leaves(roots)
  BY DEF buildTree
<1> HIDE DEF roots, r
<1>2. /\ Grows0(r, T, {}) /\ Lays(r, {sessionNode(s) : s \in T})
      /\ T # {} => r[1] = sessionNode(s1)
  BY <1>1, LeavesGrow DEF roots
<1>3. ToSet(r) = {sessionNode(s) : s \in T}
  BY <1>2, LaysShape
<1>4. \A n \in ToSet(r) : n.kind = "session"
  BY <1>3 DEF sessionNode
<1>5. ASSUME T # {} PROVE \E s \in T : IsLatestOf(s, T) /\ LeadsWith(r, s)
  <2>1. s1 \in T /\ IsLatestOf(s1, T)
    BY <1>5, byRecentLays DEF IsLatestOf, roots
  <2>2. LeadsWith(r, s1)
    BY <1>2, <1>5 DEF LeadsWith
  <2> HIDE DEF s1
  <2> QED BY <2>1, <2>2
<1> QED BY <1>2, <1>4, <1>5 DEF r

\* The tree of a list, in any mode.
LEMMA RootsLay ==
  ASSUME NEW list, IsSessionList(list)
  PROVE  LET T == {s \in ToSet(list) : s.parent = Nil}
         IN  Lays(rootSessions(list), T) /\ ToSet(rootSessions(list)) = T /\ Distinct(T)
<1> DEFINE T == {s \in ToSet(list) : s.parent = Nil}
           r == rootSessions(list)
<1>1. /\ Lays(list, ToSet(list))
      /\ \A s \in ToSet(list) : s.updated \in Nat
      /\ \A s, t \in ToSet(list) : s.id = t.id => s = t
  BY SessionsLay
<1>2. DOMAIN list = 1..Len(list) /\ \A i \in DOMAIN list : list[i] \in ToSet(list)
  BY <1>1, LaysShape
<1>3. r = Passed(list, T)
  BY <1>2 DEF rootSessions, Where, Passed
<1>4. Lays(Passed(list, T), ToSet(list) \cap T)
  <2> HIDE DEF T
  <2> QED BY <1>1, LaysWhere DEF Passed
<1>5. ToSet(list) \cap T = T
  OBVIOUS
<1>6. Distinct(T)
  BY <1>1 DEF Distinct
<1> HIDE DEF T, r
<1>7. Lays(r, T)
  BY <1>3, <1>4, <1>5
<1>8. ToSet(r) = T
  BY <1>7, LaysShape
<1> QED BY <1>6, <1>7, <1>8 DEF T, r

\* A tree of groups, and one of sessions alone.
GroupsOnly(tree) == \A n \in ToSet(tree) : n.kind # "session"
LeavesOnlyIn(tree) == \A n \in ToSet(tree) : n.kind = "session"

\* A tree holds the roots of its list, in groups only or as it is, and leads with the
\* latest unless it is grouped by workspace.
LEMMA TreeGrows ==
  ASSUME NEW list, IsSessionList(list), NEW mode, NEW T, T = ToSet(rootSessions(list))
  PROVE  LET tree == TreeOf(list, mode)
         IN  /\ \E I : Grows3(tree, T, I)
             /\ GroupsOnly(tree) \/ LeavesOnlyIn(tree)
             /\ mode # "workspace" /\ T # {} => \E s \in T : IsLatestOf(s, T) /\ LeadsWith(tree, s)
<1> DEFINE tree == TreeOf(list, mode)
<1>1. Lays(rootSessions(list), T) /\ Distinct(T)
  BY RootsLay
<1>2. CASE mode = "workspace"
  <2>1. tree = buildProjectTree(list)
    BY <1>2 DEF TreeOf
  <2>2. PICK I : Grows3(buildProjectTree(list), T, I) /\ \A n \in ToSet(buildProjectTree(list)) : n.kind # "session"
    BY <1>1, ProjectGrows
  <2> HIDE DEF tree
  <2>3. Grows3(tree, T, I) /\ GroupsOnly(tree)
    BY <2>1, <2>2 DEF GroupsOnly
  <2> QED BY <1>2, <2>3 DEF tree
<1>3. CASE mode = "none"
  <2>1. tree = buildTree(list, "none")
    BY <1>3 DEF TreeOf
  <2>2. /\ Grows0(buildTree(list, "none"), T, {})
        /\ \A n \in ToSet(buildTree(list, "none")) : n.kind = "session"
        /\ T # {} => \E s \in T : IsLatestOf(s, T) /\ LeadsWith(buildTree(list, "none"), s)
    BY <1>1, LeavesOnly
  <2>3. Grows3(buildTree(list, "none"), T, {})
    BY <2>2, GrowsMore
  <2> HIDE DEF tree
  <2>4. Grows3(tree, T, {}) /\ LeavesOnlyIn(tree)
    BY <2>1, <2>2, <2>3 DEF LeavesOnlyIn
  <2>5. \E I : Grows3(tree, T, I)
    BY <2>4
  <2> QED BY <2>1, <2>2, <2>4, <2>5 DEF tree
<1>4. CASE mode # "workspace" /\ mode # "none"
  <2>1. tree = buildTree(list, mode)
    BY <1>4 DEF TreeOf
  <2>2. /\ \E I : Grows3(buildTree(list, mode), T, I)
        /\ \A n \in ToSet(buildTree(list, mode)) : n.kind # "session"
        /\ T # {} => \E s \in T : IsLatestOf(s, T) /\ LeadsWith(buildTree(list, mode), s)
    BY <1>1, <1>4, GroupsGrow
  <2> HIDE DEF tree
  <2>3. GroupsOnly(tree)
    BY <2>1, <2>2 DEF GroupsOnly
  <2> QED BY <2>1, <2>2, <2>3 DEF tree
<1> QED BY <1>2, <1>3, <1>4

-----------------------------------------------------------------------------
(* What is shown of a tree                                                  *)

\* Nodes that are the sessions S and groups with the ids I.
Stock(M, S, I) ==
  /\ \A m \in M : \/ \E s \in S : m = sessionNode(s)
                  \/ m.kind # "session" /\ m.id[1] # "session" /\ m.id \in I
  /\ \A s \in S : sessionNode(s) \in M
  /\ \A i \in I : \E m \in M : m.kind # "session" /\ m.id = i
  /\ \A m, n \in M : m.id = n.id => m = n
  /\ \A m \in M : \E H, K : H \subseteq S /\ Sprout3(m, H, K)

\* Rows that have such nodes, each once.
Spells(r, S, I) == Lays(r, ToSet(r)) /\ Stock(ToSet(r), S, I)

\* A session has an id no group has.
LEMMA SessionNodes ==
  /\ \A s : /\ sessionNode(s).kind = "session" /\ sessionNode(s).id = <<"session", s.id>>
            /\ sessionNode(s).id[1] = "session" /\ sessionNode(s).id[2] = s.id
  /\ \A S : Distinct(S) => \A s, t \in S : sessionNode(s).id = sessionNode(t).id => s = t
<1>1. ASSUME NEW s
      PROVE  /\ sessionNode(s).kind = "session" /\ sessionNode(s).id = <<"session", s.id>>
             /\ sessionNode(s).id[1] = "session" /\ sessionNode(s).id[2] = s.id
  BY DEF sessionNode
<1>2. ASSUME NEW S, Distinct(S), NEW s \in S, NEW t \in S, sessionNode(s).id = sessionNode(t).id PROVE s = t
  <2>1. s.id = t.id
    BY <1>1, <1>2
  <2> QED BY <1>2, <2>1 DEF Distinct
<1> QED BY <1>1, <1>2

\* Stocks that have nothing in common.
LEMMA StocksJoin ==
  ASSUME NEW N, NEW M, NEW P, NEW J, NEW S, NEW I, Split(N, P, S), Split(N, J, I), Distinct(S),
         \A n \in N : Stock(M[n], P[n], J[n])
  PROVE  /\ Stock(UNION {M[n] : n \in N}, S, I)
         /\ \A a, b \in N : a # b => M[a] \cap M[b] = {}
<1> DEFINE U == UNION {M[n] : n \in N}
<1>1. \A n \in N : P[n] \subseteq S /\ J[n] \subseteq I
  BY DEF Split
<1>2. ASSUME NEW a \in N, NEW b \in N, NEW m \in M[a], NEW k \in M[b], m.id = k.id
      PROVE  a = b
  <2>1. CASE \E s \in P[a] : m = sessionNode(s)
    <3>1. PICK s \in P[a] : m = sessionNode(s)
      BY <2>1
    <3>2. PICK t \in P[b] : k = sessionNode(t)
      BY <1>2, <3>1, SessionNodes DEF Stock
    <3>3. s \in S /\ t \in S /\ s = t
      BY <1>1, <1>2, <3>1, <3>2, SessionNodes
    <3> QED BY <3>3 DEF Split
  <2>2. CASE m.id[1] # "session" /\ m.id \in J[a]
    <3>1. k.id \in J[b]
      BY <1>2, <2>2, SessionNodes DEF Stock
    <3> QED BY <1>2, <2>2, <3>1 DEF Split
  <2> QED BY <2>1, <2>2 DEF Stock
<1>3. \A a, b \in N : a # b => M[a] \cap M[b] = {}
  BY <1>2
<1>4. \A m \in U : \E n \in N : m \in M[n]
  OBVIOUS
<1>5. \A n \in N : M[n] \subseteq U
  OBVIOUS
<1>6. \A m \in U : \/ \E s \in S : m = sessionNode(s)
                   \/ m.kind # "session" /\ m.id[1] # "session" /\ m.id \in I
  BY <1>1, <1>4 DEF Stock
<1>7. \A s \in S : sessionNode(s) \in U
  <2>1. \A s \in S : \E n \in N : s \in P[n]
    BY DEF Split
  <2> QED BY <1>5, <2>1 DEF Stock
<1>8. \A i \in I : \E m \in U : m.kind # "session" /\ m.id = i
  <2>1. \A i \in I : \E n \in N : i \in J[n]
    BY DEF Split
  <2> QED BY <1>5, <2>1 DEF Stock
<1>9. \A m, n \in U : m.id = n.id => m = n
  <2>1. ASSUME NEW m \in U, NEW n \in U, m.id = n.id PROVE m = n
    <3>1. PICK a \in N : m \in M[a]
      BY <1>4
    <3>2. PICK b \in N : n \in M[b]
      BY <1>4
    <3>3. a = b
      BY <1>2, <2>1, <3>1, <3>2
    <3> QED BY <2>1, <3>1, <3>2, <3>3 DEF Stock
  <2> QED BY <2>1
<1>10. \A m \in U : \E H, K : H \subseteq S /\ Sprout3(m, H, K)
  <2>1. ASSUME NEW m \in U PROVE \E H, K : H \subseteq S /\ Sprout3(m, H, K)
    <3>1. PICK n \in N : m \in M[n]
      BY <1>4
    <3>2. PICK H, K : H \subseteq P[n] /\ Sprout3(m, H, K)
      BY <3>1 DEF Stock
    <3>3. H \subseteq S
      BY <1>1, <3>2
    <3> QED BY <3>2, <3>3
  <2> QED BY <2>1
<1> HIDE DEF U
<1>11. Stock(U, S, I)
  BY <1>6, <1>7, <1>8, <1>9, <1>10 DEF Stock
<1> QED BY <1>3, <1>11 DEF U

\* A node with what is under it.
LEMMA NodeSpells ==
  ASSUME NEW n, NEW S, NEW I, Sprout3(n, S, I), NEW w,
         \/ Sprout0(n, S, I) /\ w = <<>>
         \/ Stem(n, S) /\ n.id \in I /\ Spells(w, S, I \ {n.id})
  PROVE  Spells(<<n>> \o w, S, I)
<1>1. Lays(<<n>>, {n})
  BY LaysFew
<1>2. ASSUME NEW W, Lays(w, W), n \notin W, Stock(W \cup {n}, S, I) PROVE Spells(<<n>> \o w, S, I)
  <2>1. {n} \cap W = {} /\ W \cup {n} = {n} \cup W
    BY <1>2
  <2>2. Lays(<<n>> \o w, {n} \cup W)
    BY <1>1, <1>2, <2>1, LaysConcat
  <2>3. ToSet(<<n>> \o w) = {n} \cup W
    BY <2>2, LaysShape
  <2> QED BY <1>2, <2>1, <2>2, <2>3 DEF Spells
<1>3. CASE Sprout0(n, S, I) /\ w = <<>>
  <2>1. PICK s : S = {s} /\ n = sessionNode(s) /\ I = {}
    BY <1>3 DEF Sprout0
  <2>2. Lays(w, {}) /\ n \notin {} /\ {} \cup {n} = {n}
    BY <1>3, LaysFew
  <2>3. Stock({n}, S, I)
    BY <2>1 DEF Stock
  <2> DEFINE W == {}
  <2> HIDE DEF W
  <2>4. Lays(w, W) /\ n \notin W /\ Stock(W \cup {n}, S, I)
    BY <2>2, <2>3 DEF W
  <2> QED BY <1>2, <2>4
<1>4. CASE Stem(n, S) /\ n.id \in I /\ Spells(w, S, I \ {n.id})
  <2> DEFINE W == ToSet(w)
             U == W \cup {n}
             K == I \ {n.id}
  <2>1. n.kind # "session" /\ n.id[1] # "session"
    BY <1>4 DEF Stem
  <2>2. Lays(w, W) /\ Stock(W, S, K)
    BY <1>4 DEF Spells
  <2> HIDE DEF W
  <2>3. \A m \in W : m.id # n.id
    BY <2>1, <2>2, SessionNodes DEF Stock
  <2>4. n \notin W
    BY <2>3
  <2>5. Stock(U, S, I)
    <3>1. \A m \in U : \/ \E s \in S : m = sessionNode(s)
                       \/ m.kind # "session" /\ m.id[1] # "session" /\ m.id \in I
      BY <1>4, <2>1, <2>2 DEF Stock
    <3>2. \A s \in S : sessionNode(s) \in U
      BY <2>2 DEF Stock
    <3>3. \A i \in I : \E m \in U : m.kind # "session" /\ m.id = i
      BY <2>1, <2>2 DEF Stock
    <3>4. \A m, k \in U : m.id = k.id => m = k
      BY <2>2, <2>3 DEF Stock
    <3>5. \A m \in U : \E H, L : H \subseteq S /\ Sprout3(m, H, L)
      BY <2>2 DEF Stock
    <3> HIDE DEF U
    <3> QED BY <3>1, <3>2, <3>3, <3>4, <3>5 DEF Stock
  <2> QED BY <1>2, <2>2, <2>4, <2>5
<1> QED BY <1>3, <1>4

\* Nodes, each before what is under it.
Above(nodes, w) == FlattenSeq([k \in DOMAIN nodes |-> <<nodes[k]>> \o w[nodes[k]]])
\* The rows w under a node are those of a session, or spell out what is under a group.
Under(n, S, I, w) ==
  /\ Sprout3(n, S, I)
  /\ \/ Sprout0(n, S, I) /\ w = <<>>
     \/ Stem(n, S) /\ n.id \in I /\ Spells(w, S, I \ {n.id})

\* Nodes, each before rows with what is under it, are rows with all of it.
LEMMA RowsSpell ==
  ASSUME NEW N, NEW nodes, Lays(nodes, N), NEW P, NEW J, NEW S, NEW I, Split(N, P, S), Split(N, J, I), Distinct(S),
         NEW w, \A n \in N : Under(n, P[n], J[n], w[n])
  PROVE  Spells(Above(nodes, w), S, I)
<1> DEFINE q == [k \in DOMAIN nodes |-> <<nodes[k]>> \o w[nodes[k]]]
           M == [n \in N |-> ToSet(<<n>> \o w[n])]
           U == UNION {M[n] : n \in N}
           m == Len(nodes)
           Z == [k \in 1..m |-> M[nodes[k]]]
           r == Above(nodes, w)
<1>1. m \in Nat /\ DOMAIN nodes = 1..m /\ \A i \in 1..m : nodes[i] \in N
  BY LaysShape
<1>2. ASSUME NEW n \in N PROVE Spells(<<n>> \o w[n], P[n], J[n])
  <2>1. Under(n, P[n], J[n], w[n])
    OBVIOUS
  <2> QED BY <2>1, NodeSpells DEF Under
<1>3. \A n \in N : Lays(<<n>> \o w[n], M[n]) /\ Stock(M[n], P[n], J[n])
  BY <1>2 DEF Spells
<1> HIDE DEF M
<1>4. Stock(U, S, I) /\ \A a, b \in N : a # b => M[a] \cap M[b] = {}
  BY <1>3, StocksJoin
<1>5. r = FlattenSeq(q)
  BY DEF Above
<1>6. \A i, j \in 1..m : i # j => nodes[i] # nodes[j]
  BY <1>1 DEF Lays
<1>7. q = [i \in 1..m |-> q[i]] /\ \A i \in 1..m : Lays(q[i], Z[i])
  BY <1>1, <1>3
<1>8. \A i, j \in 1..m : i # j => Z[i] \cap Z[j] = {}
  BY <1>1, <1>4, <1>6
<1>9. UNION {Z[i] : i \in 1..m} = U
  <2>1. \A n \in N : \E i \in 1..m : nodes[i] = n
    BY <1>1 DEF Lays
  <2> QED BY <1>1, <2>1
<1> HIDE DEF q, Z, U, m, r
<1>10. Lays(FlattenSeq(q), UNION {Z[i] : i \in 1..m})
  BY <1>1, <1>7, <1>8, LaysFlatten, SMTT(30)
<1>11. Lays(r, U)
  BY <1>5, <1>9, <1>10
<1>12. ToSet(r) = U
  BY <1>11, LaysShape
<1> QED BY <1>4, <1>11, <1>12 DEF Spells, r

\* Leaves by themselves.
LEMMA LeavesSpell ==
  ASSUME NEW nodes, NEW S, NEW I, Grows0(nodes, S, I), Distinct(S)
  PROVE  Spells(nodes, S, I)
<1> DEFINE N == ToSet(nodes)
           M == [n \in N |-> {n}]
           U == UNION {M[n] : n \in N}
<1>1. PICK P, J : Split(N, P, S) /\ Split(N, J, I) /\ \A n \in N : Sprout0(n, P[n], J[n])
  BY DEF Grows0, Grove0
<1>2. Lays(nodes, N)
  BY DEF Grows0
<1> HIDE DEF N
<1>3. \A n \in N : M[n] = {n}
  OBVIOUS
<1> HIDE DEF M
<1>4. ASSUME NEW n \in N PROVE Stock(M[n], P[n], J[n])
  <2>1. Sprout0(n, P[n], J[n]) /\ Sprout3(n, P[n], J[n])
    BY <1>1, GrovesGrow
  <2>2. Spells(<<n>> \o <<>>, P[n], J[n])
    BY <2>1, NodeSpells
  <2>3. <<n>> \o <<>> = <<n>> /\ ToSet(<<n>>) = {n}
    <3>1. Lays(<<n>>, {n})
      BY LaysFew
    <3>2. <<n>> \in Seq({n}) /\ ToSet(<<n>>) = {n}
      BY <3>1, LaysShape
    <3>3. <<n>> \o <<>> = <<n>>
      BY <3>2, ConcatEmptySeq
    <3> QED BY <3>2, <3>3
  <2> QED BY <1>3, <2>2, <2>3 DEF Spells
<1>5. Stock(U, S, I)
  BY <1>1, <1>4, StocksJoin
<1>6. U = N
  BY <1>3
<1> HIDE DEF U
<1> QED BY <1>2, <1>5, <1>6 DEF Spells, N

-----------------------------------------------------------------------------
(* The two ways to unfold a tree, all of it and what is not collapsed.          *)

\* What is under a node that is shown whatever is closed, or unless it is.
Below(n, all, closed) ==
  IF all THEN n.children
  ELSE IF n.id \in closed THEN <<>>
  ELSE Where(n.children, LAMBDA c : c.kind # "session") \o Where(n.children, LAMBDA c : c.kind = "session")

\* The rows of nodes that are grown on one, two and three levels.
Row1(nodes, all, closed) ==
  FlattenSeq([k \in DOMAIN nodes |-> <<nodes[k]>> \o Below(nodes[k], all, closed)])
Row2(nodes, all, closed) ==
  FlattenSeq([k \in DOMAIN nodes |-> <<nodes[k]>> \o Row1(Below(nodes[k], all, closed), all, closed)])
Row3(nodes, all, closed) ==
  FlattenSeq([k \in DOMAIN nodes |-> <<nodes[k]>> \o Row2(Below(nodes[k], all, closed), all, closed)])

\* All the nodes are the rows when everything is shown ...
LEMMA NodesAreRows == \A tree : Nodes(tree) = Row3(tree, TRUE, {})
<1>1. \A n : n.children = Below(n, TRUE, {})
  BY DEF Below
<1> QED BY <1>1 DEF Nodes, Unfolded, Row1, Row2, Row3, Below

\* ... and RowsOf those when some groups are closed.
LEMMA RowsAreRows == \A tree, closed : RowsOf(tree, closed) = Row3(tree, FALSE, closed)
BY DEF RowsOf, Unfolded, Row1, Row2, Row3, Below

\* Whatever the order in which a group shows what is under it, it shows it once.
LEMMA BelowLays ==
  ASSUME NEW n, NEW all, NEW closed, Lays(n.children, ToSet(n.children))
  PROVE  /\ all \/ n.id \notin closed => Lays(Below(n, all, closed), ToSet(n.children))
         /\ n.children = <<>> => Below(n, all, closed) = <<>>
<1> DEFINE N == ToSet(n.children)
           K == {c \in N : c.kind # "session"}
           L == N \ K
           r == n.children
<1>1. DOMAIN r = 1..Len(r) /\ \A i \in DOMAIN r : r[i] \in N
  BY LaysShape
<1>2. Where(r, LAMBDA c : c.kind # "session") = Passed(r, K)
  BY <1>1 DEF Where, Passed
<1>3. Where(r, LAMBDA c : c.kind = "session") = Passed(r, L)
  BY <1>1 DEF Where, Passed
<1>4. L = N \ K
  OBVIOUS
<1> HIDE DEF K, L
<1>5. Lays(Passed(r, K) \o Passed(r, L), N)
  <2> HIDE DEF N, r
  <2>1. Lays(r, N)
    BY DEF r, N
  <2> QED BY <1>4, <2>1, LaysTwice
<1>6. ASSUME all \/ n.id \notin closed PROVE Lays(Below(n, all, closed), N)
  BY <1>2, <1>3, <1>5, <1>6 DEF Below
<1>7. ASSUME n.children = <<>> PROVE Below(n, all, closed) = <<>>
  <2>1. ToSet(<<>>) = {}
    BY DEF ToSet
  <2>2. Lays(Passed(r, K) \o Passed(r, L), {})
    BY <1>5, <1>7, <2>1
  <2>3. \A s : Lays(s, {}) => s = <<>>
    <3>1. ASSUME NEW s, Lays(s, {}) PROVE s = <<>>
      <4>1. s \in Seq({}) /\ Len(s) = Cardinality({})
        BY <3>1, LaysShape DEF Lays
      <4> QED BY <4>1, FS_EmptySet, EmptySeq
    <3> QED BY <3>1
  <2>4. Passed(r, K) \o Passed(r, L) = <<>>
    BY <2>2, <2>3
  <2> QED BY <1>2, <1>3, <1>7, <2>4 DEF Below
<1> QED BY <1>6, <1>7

\* The listing of nothing is empty.
LEMMA LaysNone == \A s : Lays(s, {}) => s = <<>>
<1>1. ASSUME NEW s, Lays(s, {}) PROVE s = <<>>
  <2>1. s \in Seq({}) /\ Len(s) = Cardinality({})
    BY <1>1, LaysShape DEF Lays
  <2> QED BY <2>1, FS_EmptySet, EmptySeq
<1> QED BY <1>1

\* Nothing is under nothing.
LEMMA NoRows ==
  ASSUME NEW all, NEW closed
  PROVE  /\ Row1(<<>>, all, closed) = <<>> /\ Row2(<<>>, all, closed) = <<>> /\ Row3(<<>>, all, closed) = <<>>
         /\ \A w : Above(<<>>, w) = <<>>
<1>1. ASSUME NEW s, s = [i \in 1..0 |-> s[i]] PROVE FlattenSeq(s) = <<>>
  <2> DEFINE n == 0
             T == [i \in 1..n |-> {}]
  <2>1. n \in Nat /\ s = [i \in 1..n |-> s[i]] /\ 1..n = {}
    BY <1>1
  <2>2. UNION {T[i] : i \in 1..n} = {}
    OBVIOUS
  <2> HIDE DEF n, T
  <2>3. Lays(FlattenSeq(s), UNION {T[i] : i \in 1..n})
    BY <2>1, LaysFlatten
  <2>4. Lays(FlattenSeq(s), {})
    BY <2>2, <2>3
  <2> QED BY <2>4, LaysNone
<1>2. DOMAIN <<>> = 1..0
  OBVIOUS
<1>3. Row1(<<>>, all, closed) = <<>>
  <2> DEFINE s == [k \in DOMAIN <<>> |-> <<<<>>[k]>> \o Below(<<>>[k], all, closed)]
  <2>1. s = [i \in 1..0 |-> s[i]]
    BY <1>2
  <2>2. FlattenSeq(s) = <<>>
    BY <1>1, <2>1
  <2> QED BY <2>2 DEF Row1
<1>4. Row2(<<>>, all, closed) = <<>>
  <2> DEFINE s == [k \in DOMAIN <<>> |-> <<<<>>[k]>> \o Row1(Below(<<>>[k], all, closed), all, closed)]
  <2>1. s = [i \in 1..0 |-> s[i]]
    BY <1>2
  <2>2. FlattenSeq(s) = <<>>
    BY <1>1, <2>1
  <2> QED BY <2>2 DEF Row2
<1>5. Row3(<<>>, all, closed) = <<>>
  <2> DEFINE s == [k \in DOMAIN <<>> |-> <<<<>>[k]>> \o Row2(Below(<<>>[k], all, closed), all, closed)]
  <2>1. s = [i \in 1..0 |-> s[i]]
    BY <1>2
  <2>2. FlattenSeq(s) = <<>>
    BY <1>1, <2>1
  <2> QED BY <2>2 DEF Row3
<1>6. ASSUME NEW w PROVE Above(<<>>, w) = <<>>
  <2> DEFINE s == [k \in DOMAIN <<>> |-> <<<<>>[k]>> \o w[<<>>[k]]]
  <2>1. s = [i \in 1..0 |-> s[i]]
    BY <1>2
  <2>2. FlattenSeq(s) = <<>>
    BY <1>1, <2>1
  <2> QED BY <2>2 DEF Above
<1> QED BY <1>3, <1>4, <1>5, <1>6

\* What is below a stem that is open, and a leaf.
LEMMA BelowStem ==
  ASSUME NEW n, NEW S, Stem(n, S), NEW all, NEW closed, all \/ n.id \notin closed
  PROVE  LET b == Below(n, all, closed) IN Lays(b, ToSet(b)) /\ ToSet(b) = ToSet(n.children)
<1>1. Lays(n.children, ToSet(n.children))
  BY DEF Stem, Grown
<1>2. Lays(Below(n, all, closed), ToSet(n.children))
  BY <1>1, BelowLays
<1> QED BY <1>2, LaysShape

\* Nothing is shown under a session.
LEMMA BelowLeaf ==
  ASSUME NEW n, NEW S, NEW I, Sprout0(n, S, I), NEW all, NEW closed
  PROVE  Below(n, all, closed) = <<>>
<1>1. n.children = <<>> /\ Lays(n.children, ToSet(n.children))
  BY SproutsAreGrown DEF Grown
<1> QED BY <1>1, BelowLays

\* No group of these is closed.
Shown(I, all, closed) == all \/ I \cap closed = {}

\* The rows of nodes on one level spell them out,
LEMMA Row1Spells ==
  ASSUME NEW nodes, NEW S, NEW I, Grows1(nodes, S, I), Distinct(S), NEW all, NEW closed, Shown(I, all, closed)
  PROVE  Spells(Row1(nodes, all, closed), S, I)
<1> DEFINE N == ToSet(nodes)
           w == [n \in N |-> Below(n, all, closed)]
<1>1. PICK P, J : Split(N, P, S) /\ Split(N, J, I) /\ \A n \in N : Sprout1(n, P[n], J[n])
  BY DEF Grows1, Grove1
<1>2. Lays(nodes, N)
  BY DEF Grows1
<1> HIDE DEF N
<1>3. \A n \in N : P[n] \subseteq S /\ J[n] \subseteq I /\ Distinct(P[n])
  BY <1>1 DEF Split, Distinct
<1>4. ASSUME NEW n \in N PROVE Under(n, P[n], J[n], w[n])
  <2>1. Sprout1(n, P[n], J[n]) /\ Sprout3(n, P[n], J[n]) /\ w[n] = Below(n, all, closed)
    BY <1>1, GrovesGrow
  <2>2. CASE Sprout0(n, P[n], J[n])
    <3>1. w[n] = <<>>
      BY <2>1, <2>2, BelowLeaf
    <3> QED BY <2>1, <2>2, <3>1 DEF Under
  <2>3. CASE Stem(n, P[n]) /\ n.id \in J[n] /\ Grove0(ToSet(n.children), P[n], J[n] \ {n.id})
    <3>1. all \/ n.id \notin closed
      BY <1>3, <2>3 DEF Shown
    <3>2. Lays(w[n], ToSet(w[n])) /\ ToSet(w[n]) = ToSet(n.children)
      BY <2>1, <2>3, <3>1, BelowStem
    <3>3. Grows0(w[n], P[n], J[n] \ {n.id})
      BY <2>3, <3>2 DEF Grows0
    <3>4. Spells(w[n], P[n], J[n] \ {n.id})
      BY <1>3, <3>3, LeavesSpell
    <3> QED BY <2>1, <2>3, <3>4 DEF Under
  <2> QED BY <2>1, <2>2, <2>3 DEF Sprout1
<1>5. Row1(nodes, all, closed) = Above(nodes, w)
  <2>1. \A k \in DOMAIN nodes : nodes[k] \in N
    BY <1>2, LaysShape
  <2> QED BY <2>1 DEF Row1, Above
<1> HIDE DEF w
<1>6. Spells(Above(nodes, w), S, I)
  BY <1>1, <1>2, <1>4, RowsSpell
<1> QED BY <1>5, <1>6

\* A way to share out the rows of nodes,
Unfolds(nodes, S, I, P, J, w) ==
  /\ Lays(nodes, ToSet(nodes)) /\ Split(ToSet(nodes), P, S) /\ Split(ToSet(nodes), J, I)
  /\ \A n \in ToSet(nodes) : Under(n, P[n], J[n], w[n])

\* those of two levels,
Spread2(nodes, S, I, all, closed, P, J, w) ==
  /\ Unfolds(nodes, S, I, P, J, w) /\ Row2(nodes, all, closed) = Above(nodes, w)
  /\ \A n \in ToSet(nodes) : /\ Sprout2(n, P[n], J[n])
                             /\ w[n] = Row1(Below(n, all, closed), all, closed)

\* those on two are nodes, each before its rows on one,
LEMMA Row2Unfolds ==
  ASSUME NEW nodes, NEW S, NEW I, Grows2(nodes, S, I), Distinct(S), NEW all, NEW closed, Shown(I, all, closed)
  PROVE  \E P, J, w : Spread2(nodes, S, I, all, closed, P, J, w)
<1> DEFINE N == ToSet(nodes)
           w == [n \in N |-> Row1(Below(n, all, closed), all, closed)]
<1>1. PICK P, J : Split(N, P, S) /\ Split(N, J, I) /\ \A n \in N : Sprout2(n, P[n], J[n])
  BY DEF Grows2, Grove2
<1>2. Lays(nodes, N)
  BY DEF Grows2
<1> HIDE DEF N
<1>3. \A n \in N : P[n] \subseteq S /\ J[n] \subseteq I /\ Distinct(P[n])
  BY <1>1 DEF Split, Distinct
<1>4. ASSUME NEW n \in N PROVE Under(n, P[n], J[n], w[n])
  <2> DEFINE b == Below(n, all, closed)
  <2>1. Sprout2(n, P[n], J[n]) /\ Sprout3(n, P[n], J[n]) /\ w[n] = Row1(b, all, closed)
    BY <1>1, GrovesGrow
  <2>2. CASE Sprout0(n, P[n], J[n])
    <3>1. b = <<>>
      BY <2>2, BelowLeaf
    <3>2. w[n] = <<>>
      BY <2>1, <3>1, NoRows
    <3> QED BY <2>1, <2>2, <3>2 DEF Under
  <2>3. CASE Stem(n, P[n]) /\ n.id \in J[n] /\ Grove1(ToSet(n.children), P[n], J[n] \ {n.id})
    <3>1. all \/ n.id \notin closed
      BY <1>3, <2>3 DEF Shown
    <3>2. Lays(b, ToSet(b)) /\ ToSet(b) = ToSet(n.children)
      BY <2>3, <3>1, BelowStem
    <3> HIDE DEF b
    <3>3. Grows1(b, P[n], J[n] \ {n.id})
      BY <2>3, <3>2 DEF Grows1
    <3>4. Shown(J[n] \ {n.id}, all, closed)
      BY <1>3 DEF Shown
    <3>5. Spells(w[n], P[n], J[n] \ {n.id})
      BY <1>3, <2>1, <3>3, <3>4, Row1Spells
    <3> QED BY <2>1, <2>3, <3>5 DEF Under
  <2> QED BY <2>1, <2>2, <2>3 DEF Sprout2
<1>5. Row2(nodes, all, closed) = Above(nodes, w)
  <2>1. \A i \in DOMAIN nodes : nodes[i] \in N
    BY <1>2, LaysShape
  <2> QED BY <2>1 DEF Row2, Above
<1>6. \A n \in N : w[n] = Row1(Below(n, all, closed), all, closed)
  OBVIOUS
<1> HIDE DEF w
<1>7. Unfolds(nodes, S, I, P, J, w)
  BY <1>1, <1>2, <1>4 DEF Unfolds, N
<1>8. \A n \in ToSet(nodes) : /\ Sprout2(n, P[n], J[n])
                              /\ w[n] = Row1(Below(n, all, closed), all, closed)
  BY <1>1, <1>6 DEF N
<1>9. Spread2(nodes, S, I, all, closed, P, J, w)
  BY <1>5, <1>7, <1>8 DEF Spread2
<1> QED BY <1>9

\* so that they spell them out as well;
LEMMA Row2Spells ==
  ASSUME NEW nodes, NEW S, NEW I, Grows2(nodes, S, I), Distinct(S), NEW all, NEW closed, Shown(I, all, closed)
  PROVE  Spells(Row2(nodes, all, closed), S, I)
<1>0. PICK P, J, w : Spread2(nodes, S, I, all, closed, P, J, w)
  BY Row2Unfolds
<1>1. Unfolds(nodes, S, I, P, J, w) /\ Row2(nodes, all, closed) = Above(nodes, w)
  BY <1>0 DEF Spread2
<1>2. Spells(Above(nodes, w), S, I)
  BY <1>1, RowsSpell DEF Unfolds
<1> QED BY <1>1, <1>2

\* and those of three.
Spread3(nodes, S, I, all, closed, P, J, w) ==
  /\ Unfolds(nodes, S, I, P, J, w) /\ Row3(nodes, all, closed) = Above(nodes, w)
  /\ \A n \in ToSet(nodes) : /\ Sprout3(n, P[n], J[n])
                             /\ w[n] = Row2(Below(n, all, closed), all, closed)

\* and those on three are nodes, each before its rows on two,
LEMMA Row3Unfolds ==
  ASSUME NEW nodes, NEW S, NEW I, Grows3(nodes, S, I), Distinct(S), NEW all, NEW closed, Shown(I, all, closed)
  PROVE  \E P, J, w : Spread3(nodes, S, I, all, closed, P, J, w)
<1> DEFINE N == ToSet(nodes)
           w == [n \in N |-> Row2(Below(n, all, closed), all, closed)]
<1>1. PICK P, J : Split(N, P, S) /\ Split(N, J, I) /\ \A n \in N : Sprout3(n, P[n], J[n])
  BY DEF Grows3, Grove3
<1>2. Lays(nodes, N)
  BY DEF Grows3
<1> HIDE DEF N
<1>3. \A n \in N : P[n] \subseteq S /\ J[n] \subseteq I /\ Distinct(P[n])
  BY <1>1 DEF Split, Distinct
<1>4. ASSUME NEW n \in N PROVE Under(n, P[n], J[n], w[n])
  <2> DEFINE b == Below(n, all, closed)
  <2>1. Sprout3(n, P[n], J[n]) /\ Sprout3(n, P[n], J[n]) /\ w[n] = Row2(b, all, closed)
    BY <1>1, GrovesGrow
  <2>2. CASE Sprout0(n, P[n], J[n])
    <3>1. b = <<>>
      BY <2>2, BelowLeaf
    <3>2. w[n] = <<>>
      BY <2>1, <3>1, NoRows
    <3> QED BY <2>1, <2>2, <3>2 DEF Under
  <2>3. CASE Stem(n, P[n]) /\ n.id \in J[n] /\ Grove2(ToSet(n.children), P[n], J[n] \ {n.id})
    <3>1. all \/ n.id \notin closed
      BY <1>3, <2>3 DEF Shown
    <3>2. Lays(b, ToSet(b)) /\ ToSet(b) = ToSet(n.children)
      BY <2>3, <3>1, BelowStem
    <3> HIDE DEF b
    <3>3. Grows2(b, P[n], J[n] \ {n.id})
      BY <2>3, <3>2 DEF Grows2
    <3>4. Shown(J[n] \ {n.id}, all, closed)
      BY <1>3 DEF Shown
    <3>5. Spells(w[n], P[n], J[n] \ {n.id})
      BY <1>3, <2>1, <3>3, <3>4, Row2Spells
    <3> QED BY <2>1, <2>3, <3>5 DEF Under
  <2> QED BY <2>1, <2>2, <2>3 DEF Sprout3
<1>5. Row3(nodes, all, closed) = Above(nodes, w)
  <2>1. \A i \in DOMAIN nodes : nodes[i] \in N
    BY <1>2, LaysShape
  <2> QED BY <2>1 DEF Row3, Above
<1>6. \A n \in N : w[n] = Row2(Below(n, all, closed), all, closed)
  OBVIOUS
<1> HIDE DEF w
<1>7. Unfolds(nodes, S, I, P, J, w)
  BY <1>1, <1>2, <1>4 DEF Unfolds, N
<1>8. \A n \in ToSet(nodes) : /\ Sprout3(n, P[n], J[n])
                              /\ w[n] = Row2(Below(n, all, closed), all, closed)
  BY <1>1, <1>6 DEF N
<1>9. Spread3(nodes, S, I, all, closed, P, J, w)
  BY <1>5, <1>7, <1>8 DEF Spread3
<1> QED BY <1>9

\* so that the rows of a tree spell it out.
LEMMA Row3Spells ==
  ASSUME NEW nodes, NEW S, NEW I, Grows3(nodes, S, I), Distinct(S), NEW all, NEW closed, Shown(I, all, closed)
  PROVE  Spells(Row3(nodes, all, closed), S, I)
<1>0. PICK P, J, w : Spread3(nodes, S, I, all, closed, P, J, w)
  BY Row3Unfolds
<1>1. Unfolds(nodes, S, I, P, J, w) /\ Row3(nodes, all, closed) = Above(nodes, w)
  BY <1>0 DEF Spread3
<1>2. Spells(Above(nodes, w), S, I)
  BY <1>1, RowsSpell DEF Unfolds
<1> QED BY <1>1, <1>2

-----------------------------------------------------------------------------
(* What such a list of rows says                                            *)

\* A set has as many images under a function that tells its members apart.
LEMMA ImageCount ==
  ASSUME NEW S, IsFiniteSet(S), NEW f, \A x, y \in S : f[x] = f[y] => x = y, NEW T, T = {f[x] : x \in S}
  PROVE  IsFiniteSet(T) /\ Cardinality(T) = Cardinality(S)
<1> DEFINE g == [x \in S |-> f[x]]
<1>1. g \in [S -> T] /\ \A x \in S : g[x] = f[x]
  OBVIOUS
<1>2. \A y \in T : \E x \in S : g[x] = y
  OBVIOUS
<1> HIDE DEF g
<1>3. g \in Injection(S, T)
  BY <1>1 DEF Injection, IsInjective
<1>4. g \in Surjection(S, T)
  BY <1>1, <1>2 DEF Surjection
<1>5. ExistsBijection(S, T)
  BY <1>3, <1>4 DEF ExistsBijection, Bijection
<1> QED BY <1>5, FS_Bijection

\* The leaves of rows are their sessions, each once.
LEMMA LeafIdsLay ==
  ASSUME NEW r, NEW S, NEW I, Spells(r, S, I), Distinct(S)
  PROVE  /\ Lays(LeafIds(r), {s.id : s \in S})
         /\ IsPermutation(LeafIds(r), {s.id : s \in S})
         /\ IsFiniteSet(S) => Len(LeafIds(r)) = Cardinality(S)
<1> DEFINE M == ToSet(r)
           K == {m \in M : m.kind = "session"}
           leaves == Where(r, IsLeaf)
           L == {sessionNode(s) : s \in S}
           f == [m \in L |-> m.id[2]]
           ids == LeafIds(r)
           X == {s.id : s \in S}
<1>1. Lays(r, M) /\ Stock(M, S, I)
  BY DEF Spells
<1>2. DOMAIN r = 1..Len(r) /\ \A i \in DOMAIN r : r[i] \in M
  BY <1>1, LaysShape
<1>3. leaves = Passed(r, K)
  BY <1>2 DEF Where, Passed, IsLeaf
<1>4. K = L
  <2>1. \A m \in K : m \in L
    BY <1>1 DEF Stock
  <2>2. \A s \in S : sessionNode(s) \in K
    BY <1>1, SessionNodes DEF Stock
  <2> QED BY <2>1, <2>2
<1>5. M \cap K = K
  OBVIOUS
<1> HIDE DEF M, K, leaves
<1>6. Lays(Passed(r, K), M \cap K)
  BY <1>1, LaysWhere DEF Passed
<1>7. Lays(leaves, L)
  BY <1>3, <1>4, <1>5, <1>6
<1>8. \A s \in S : sessionNode(s) \in L /\ f[sessionNode(s)] = s.id
  BY SessionNodes
<1>9. \A m, n \in L : f[m] = f[n] => m = n
  <2>1. ASSUME NEW s \in S, NEW t \in S, s.id = t.id PROVE s = t
    BY <2>1 DEF Distinct
  <2> HIDE DEF f
  <2> QED BY <1>8, <2>1
<1>10. DOMAIN leaves = 1..Len(leaves) /\ \A k \in DOMAIN leaves : leaves[k] \in L
  BY <1>7, LaysShape
<1>11. ids = [k \in DOMAIN leaves |-> f[leaves[k]]]
  <2>1. ids = [k \in DOMAIN leaves |-> leaves[k].id[2]]
    BY DEF LeafIds, leaves
  <2> QED BY <1>10, <2>1
<1>12. {f[m] : m \in L} = X
  <2> HIDE DEF f
  <2> QED BY <1>8
<1> HIDE DEF f, L, ids
<1>13. Lays(ids, {f[m] : m \in L})
  BY <1>7, <1>9, <1>11, LaysMapped
<1>14. Lays(ids, X)
  BY <1>12, <1>13
<1> HIDE DEF X
<1>15. ToSet(ids) = X /\ Len(ids) = Cardinality(X)
  BY <1>14, LaysShape
<1>16. ASSUME IsFiniteSet(S) PROVE Len(ids) = Cardinality(S)
  <2> DEFINE g == [s \in S |-> s.id]
  <2>1. X = {g[s] : s \in S} /\ \A s, t \in S : g[s] = g[t] => s = t
    BY DEF X, Distinct
  <2> HIDE DEF g
  <2>2. Cardinality(X) = Cardinality(S)
    BY <1>16, <2>1, ImageCount
  <2> QED BY <1>15, <2>2
<1>17. IsPermutation(ids, X)
  BY <1>15 DEF IsPermutation
<1> QED BY <1>14, <1>16, <1>17 DEF ids, X

\* No two rows have one id.
LEMMA RowIds ==
  ASSUME NEW r, NEW S, NEW I, Spells(r, S, I)
  PROVE  Len(r) = Cardinality({n.id : n \in ToSet(r)})
         /\ {n.id : n \in ToSet(r)} = {<<"session", s.id>> : s \in S} \cup I
<1> DEFINE M == ToSet(r)
           f == [m \in M |-> m.id]
           X == {n.id : n \in M}
<1>1. Lays(r, M) /\ Stock(M, S, I)
  BY DEF Spells
<1>2. IsFiniteSet(M) /\ Cardinality(M) = Len(r)
  BY <1>1, LaysShape
<1> HIDE DEF M
<1>3. X = {f[m] : m \in M} /\ \A m, n \in M : f[m] = f[n] => m = n
  BY <1>1 DEF Stock
<1>4. Cardinality(X) = Len(r)
  <2> HIDE DEF f, X
  <2>1. Cardinality(X) = Cardinality(M)
    BY <1>2, <1>3, ImageCount
  <2> QED BY <1>2, <2>1
<1>5. X = {<<"session", s.id>> : s \in S} \cup I
  <2>1. ASSUME NEW m \in M PROVE m.id \in {<<"session", s.id>> : s \in S} \cup I
    <3>1. CASE m.id \in I
      BY <3>1
    <3>2. CASE \E s \in S : m = sessionNode(s)
      <4>1. PICK s \in S : m = sessionNode(s)
        BY <3>2
      <4>2. m.id = <<"session", s.id>>
        BY <4>1, SessionNodes
      <4> QED BY <4>2
    <3> QED BY <1>1, <3>1, <3>2 DEF Stock
  <2>2. ASSUME NEW s \in S PROVE <<"session", s.id>> \in X
    <3>1. sessionNode(s) \in M /\ sessionNode(s).id = <<"session", s.id>>
      BY <1>1, SessionNodes DEF Stock
    <3> QED BY <3>1
  <2>3. ASSUME NEW i \in I PROVE i \in X
    BY <1>1 DEF Stock
  <2> QED BY <2>1, <2>2, <2>3
<1> QED BY <1>4, <1>5 DEF M

\* A group counts the sessions under it.
LEMMA OneGrows3 ==
  ASSUME NEW n, NEW S, NEW I, Sprout3(n, S, I)
  PROVE  Grows3(<<n>>, S, I)
<1> DEFINE P == [m \in {n} |-> S]
           J == [m \in {n} |-> I]
<1>1. Split({n}, P, S) /\ Split({n}, J, I) /\ \A m \in {n} : Sprout3(m, P[m], J[m])
  BY DEF Split
<1>2. Grove3({n}, S, I)
  <2> HIDE DEF P, J
  <2> QED BY <1>1 DEF Grove3
<1>3. Lays(<<n>>, {n})
  BY LaysFew
<1>4. ToSet(<<n>>) = {n}
  BY <1>3, LaysShape
<1> QED BY <1>2, <1>3, <1>4 DEF Grows3

\* What a node counts is the leaves under it.
LEMMA CountsAreTrue ==
  ASSUME NEW r, NEW S, NEW I, Spells(r, S, I), Distinct(S), NEW n \in ToSet(r)
  PROVE  n.count = Len(LeafIds(Nodes(<<n>>)))
<1>1. PICK H, K : H \subseteq S /\ Sprout3(n, H, K)
  BY DEF Spells, Stock
<1>2. Distinct(H)
  BY <1>1 DEF Distinct
<1>3. Grows3(<<n>>, H, K) /\ Shown(K, TRUE, {})
  BY <1>1, OneGrows3 DEF Shown
<1>4. Spells(Row3(<<n>>, TRUE, {}), H, K)
  BY <1>2, <1>3, Row3Spells
<1>5. Spells(Nodes(<<n>>), H, K)
  BY <1>4, NodesAreRows
<1>6. IsFiniteSet(H) /\ n.count = Cardinality(H)
  BY <1>1, SproutsAreGrown DEF Grown
<1> QED BY <1>2, <1>5, <1>6, LeafIdsLay

\* It begins with the first node and what is under that.
LEMMA UnfoldsFirst ==
  ASSUME NEW nodes, NEW S, NEW I, NEW P, NEW J, NEW w, Unfolds(nodes, S, I, P, J, w), nodes # <<>>
  PROVE  LET n == nodes[1]
             r == Above(nodes, w)
         IN  n \in ToSet(nodes) /\ r[1] = n /\ (w[n] # <<>> => r[2] = w[n][1])
<1> DEFINE N == ToSet(nodes)
           q == [k \in DOMAIN nodes |-> <<nodes[k]>> \o w[nodes[k]]]
           U == UNION {ToSet(<<n>> \o w[n]) : n \in N}
           n1 == nodes[1]
           W == ToSet(w[n1])
           r == Above(nodes, w)
<1>1. /\ Lays(nodes, N) /\ \A n \in N : Under(n, P[n], J[n], w[n])
  BY DEF Unfolds
<1>2. /\ Len(nodes) \in Nat /\ DOMAIN nodes = 1..Len(nodes) /\ (\A k \in 1..Len(nodes) : nodes[k] \in N)
      /\ nodes \in Seq(N)
  BY <1>1, LaysShape DEF Lays
<1>3. Len(nodes) # 0
  <2> HIDE DEF N
  <2> QED BY <1>2, EmptySeq
<1>4. 1 \in 1..Len(nodes) /\ n1 \in N
  BY <1>2, <1>3
<1>5. ASSUME NEW n \in N PROVE <<n>> \o w[n] \in Seq(U)
  <2>1. Under(n, P[n], J[n], w[n])
    BY <1>1
  <2>2. Spells(<<n>> \o w[n], P[n], J[n])
    BY <2>1, NodeSpells DEF Under
  <2>3. <<n>> \o w[n] \in Seq(ToSet(<<n>> \o w[n]))
    BY <2>2 DEF Spells, Lays
  <2>4. ToSet(<<n>> \o w[n]) \subseteq U
    OBVIOUS
  <2> HIDE DEF U
  <2> QED BY <2>3, <2>4
<1> HIDE DEF U, N
<1>6. q \in Seq(Seq(U)) /\ Len(q) = Len(nodes)
  BY <1>2, <1>5
<1>7. q[1] = <<n1>> \o w[n1] /\ r = FlattenSeq(q) /\ 1 \in 1..Len(q)
  BY <1>2, <1>4, <1>6 DEF Above
<1>8. \A k \in 1..Len(<<n1>> \o w[n1]) : r[k] = (<<n1>> \o w[n1])[k]
  <2> HIDE DEF q, r, n1
  <2>1. \A i \in 1..(1 - 1) : q[i] = <<>>
    OBVIOUS
  <2>2. \A k \in 1..Len(q[1]) : FlattenSeq(q)[k] = q[1][k]
    BY <1>6, <1>7, <2>1, FlattenStarts
  <2> QED BY <1>7, <2>2
<1>9. w[n1] \in Seq(W)
  <2>1. Under(n1, P[n1], J[n1], w[n1])
    BY <1>1, <1>4
  <2> HIDE DEF n1
  <2>2. w[n1] = <<>> \/ w[n1] \in Seq(ToSet(w[n1]))
    BY <2>1 DEF Under, Spells, Lays
  <2>3. <<>> \in Seq(W)
    OBVIOUS
  <2> QED BY <2>2, <2>3
<1> DEFINE v == w[n1]
<1> HIDE DEF W, n1, r
<1>10. /\ Len(<<n1>> \o v) = 1 + Len(v) /\ (<<n1>> \o v)[1] = n1
       /\ v # <<>> => Len(v) >= 1 /\ (<<n1>> \o v)[2] = v[1]
  <2>1. <<n1>> \in Seq({n1} \cup W) /\ v \in Seq({n1} \cup W) /\ Len(<<n1>>) = 1 /\ <<n1>>[1] = n1
    BY <1>9
  <2>2. Len(v) \in Nat /\ (v # <<>> => Len(v) # 0)
    BY <1>9, EmptySeq
  <2> HIDE DEF v
  <2>3. /\ Len(<<n1>> \o v) = Len(<<n1>>) + Len(v)
        /\ \A i \in 1..(Len(<<n1>>) + Len(v)) :
             (<<n1>> \o v)[i] = IF i <= Len(<<n1>>) THEN <<n1>>[i] ELSE v[i - Len(<<n1>>)]
    BY <2>1, ConcatProperties
  <2>4. 1 \in 1..(1 + Len(v)) /\ (v # <<>> => 2 \in 1..(1 + Len(v)))
    BY <2>2
  <2> QED BY <2>1, <2>2, <2>3, <2>4
<1>11. r[1] = n1 /\ (v # <<>> => r[2] = v[1])
  <2>1. Len(v) \in Nat
    BY <1>9
  <2>2. 1 \in 1..(1 + Len(v)) /\ (v # <<>> => 2 \in 1..(1 + Len(v)))
    BY <1>10, <2>1
  <2> HIDE DEF v
  <2> QED BY <1>8, <1>10, <2>2 DEF v
<1> QED BY <1>4, <1>11 DEF n1, r, N

\* What filter passes first.
LEMMA PassedFirst ==
  ASSUME NEW M, NEW r, Lays(r, M), NEW K, NEW j \in DOMAIN r, r[j] \in K, \A i \in 1..(j - 1) : r[i] \notin K
  PROVE  Passed(r, K)[1] = r[j] /\ Passed(r, K) # <<>>
<1> DEFINE q == [i \in DOMAIN r |-> IF r[i] \in K THEN <<r[i]>> ELSE <<>>]
<1>1. Len(r) \in Nat /\ DOMAIN r = 1..Len(r) /\ \A i \in 1..Len(r) : r[i] \in M
  BY LaysShape
<1>2. q \in Seq(Seq(M)) /\ Len(q) = Len(r)
  BY <1>1
<1>3. j \in 1..Len(q) /\ q[j] = <<r[j]>> /\ \A i \in 1..(j - 1) : q[i] = <<>>
  BY <1>1, <1>2
<1>4. Passed(r, K) = FlattenSeq(q)
  BY DEF Passed
<1> HIDE DEF q
<1>5. \A k \in 1..Len(q[j]) : FlattenSeq(q)[k] = q[j][k]
  BY <1>2, <1>3, FlattenStarts
<1>6. Len(<<r[j]>>) = 1 /\ <<r[j]>>[1] = r[j]
  OBVIOUS
<1>7. FlattenSeq(q)[1] = r[j]
  BY <1>3, <1>5, <1>6
<1>8. Passed(r, K) # <<>>
  <2>1. Lays(Passed(r, K), M \cap K)
    BY LaysWhere DEF Passed
  <2>2. r[j] \in M \cap K
    BY <1>1
  <2>3. \E i \in DOMAIN Passed(r, K) : Passed(r, K)[i] = r[j]
    BY <2>1, <2>2 DEF Lays
  <2>4. DOMAIN <<>> = {}
    OBVIOUS
  <2> QED BY <2>3, <2>4
<1> QED BY <1>4, <1>7, <1>8

\* Below a group of leaves that is open, they are listed as they are.
LEMMA BelowFirst ==
  ASSUME NEW n, NEW S, Stem(n, S), \A c \in ToSet(n.children) : c.kind = "session", n.children # <<>>
  PROVE  Below(n, FALSE, {})[1] = n.children[1] /\ Below(n, FALSE, {}) # <<>>
<1> DEFINE r == n.children
           N == ToSet(r)
<1>1. Lays(r, N)
  BY DEF Stem, Grown
<1>2. /\ Len(r) \in Nat /\ DOMAIN r = 1..Len(r) /\ (\A i \in DOMAIN r : r[i] \in N)
      /\ r \in Seq(N)
  BY <1>1, LaysShape DEF Lays
<1>3. 1 \in DOMAIN r
  <2>1. Len(r) # 0
    <3> HIDE DEF N
    <3> QED BY <1>2, EmptySeq
  <2> QED BY <1>2, <2>1
<1>4. Where(r, LAMBDA c : c.kind = "session") = Passed(r, N)
  BY <1>2 DEF Where, Passed
<1>5. Where(r, LAMBDA c : c.kind # "session") = Passed(r, {})
  BY <1>2 DEF Where, Passed
<1> HIDE DEF N
<1>6. Passed(r, {}) = <<>>
  <2>1. N \cap {} = {}
    OBVIOUS
  <2>2. Lays(Passed(r, {}), N \cap {})
    BY <1>1, LaysWhere DEF Passed
  <2> QED BY <2>1, <2>2, LaysNone
<1>7. Passed(r, N)[1] = r[1] /\ Passed(r, N) # <<>>
  BY <1>1, <1>2, <1>3, PassedFirst
<1>8. <<>> \o Passed(r, N) = Passed(r, N)
  <2>1. Lays(Passed(r, N), N \cap N)
    BY <1>1, LaysWhere DEF Passed
  <2>2. Passed(r, N) \in Seq(N \cap N)
    BY <2>1 DEF Lays
  <2> QED BY <2>2, ConcatEmptySeq
<1>9. Below(n, FALSE, {}) = Where(r, LAMBDA c : c.kind # "session") \o Where(r, LAMBDA c : c.kind = "session")
  BY DEF Below
<1> QED BY <1>4, <1>5, <1>6, <1>7, <1>8, <1>9

\* The first session that is listed.
LEMMA FirstLeaf ==
  ASSUME NEW tree, NEW S, NEW I, Grows3(tree, S, I), Distinct(S), NEW s \in S, LeadsWith(tree, s)
  PROVE  LeafIds(RowsOf(tree, {}))[1] = s.id
<1> DEFINE r == Row3(tree, FALSE, {})
           n == tree[1]
           M == ToSet(r)
           K == {m \in M : m.kind = "session"}
           leaves == Where(r, IsLeaf)
<1>1. Shown(I, FALSE, {})
  BY DEF Shown
<1>0. PICK P, J, w : Spread3(tree, S, I, FALSE, {}, P, J, w)
  BY <1>1, Row3Unfolds
<1>2. /\ Unfolds(tree, S, I, P, J, w) /\ r = Above(tree, w)
      /\ \A m \in ToSet(tree) : /\ Sprout3(m, P[m], J[m])
                                /\ w[m] = Row2(Below(m, FALSE, {}), FALSE, {})
  BY <1>0 DEF Spread3
<1>3. tree # <<>>
  BY GrowsSomething
<1>4. n \in ToSet(tree) /\ r[1] = n /\ (w[n] # <<>> => r[2] = w[n][1])
  <2> HIDE DEF r, n
  <2>1. n \in ToSet(tree) /\ Above(tree, w)[1] = n /\ (w[n] # <<>> => Above(tree, w)[2] = w[n][1])
    BY <1>2, <1>3, UnfoldsFirst DEF n
  <2> QED BY <1>2, <2>1
<1>5. Spells(r, S, I)
  BY <1>1, Row3Spells
<1>6. Lays(r, M) /\ Stock(M, S, I)
  BY <1>5 DEF Spells
<1>7. Len(r) \in Nat /\ DOMAIN r = 1..Len(r) /\ \A i \in DOMAIN r : r[i] \in M
  BY <1>6, LaysShape
<1> HIDE DEF r, M
<1>8. leaves = Passed(r, K)
  BY <1>7 DEF Where, Passed, IsLeaf
<1>9. \E j \in DOMAIN r : r[j] = sessionNode(s) /\ \A i \in 1..(j - 1) : r[i] \notin K
  <2>1. CASE n = sessionNode(s)
    <3>1. n \in M
      BY <1>6, <2>1 DEF Stock
    <3>2. PICK k \in DOMAIN r : r[k] = n
      BY <1>6, <3>1 DEF Lays
    <3>3. 1 \in DOMAIN r
      BY <1>7, <3>2
    <3>4. \A i \in 1..(1 - 1) : r[i] \notin K
      OBVIOUS
    <3> QED BY <1>4, <2>1, <3>3, <3>4
  <2>2. CASE /\ n.kind # "session" /\ n.children[1] = sessionNode(s)
             /\ \A c \in ToSet(n.children) : c.kind = "session"
    <3> DEFINE b == Below(n, FALSE, {})
               C == n.children
    <3>1. ~Sprout0(n, P[n], J[n])
      BY <2>2, SproutsAreGrown
    <3>2. Stem(n, P[n]) /\ n.id \in J[n] /\ Grove2(ToSet(C), P[n], J[n] \ {n.id})
      BY <1>2, <1>4, <3>1 DEF Sprout3
    <3>3. P[n] \subseteq S /\ Distinct(P[n]) /\ P[n] # {}
      BY <1>2, <1>4, <3>2 DEF Unfolds, Split, Distinct, Stem, Grown
    <3>4. Lays(C, ToSet(C))
      BY <3>2 DEF Stem, Grown
    <3>5. Grows2(C, P[n], J[n] \ {n.id})
      BY <3>2, <3>4 DEF Grows2
    <3>6. C # <<>>
      BY <3>3, <3>5, GrowsSomething
    <3>7. b[1] = C[1] /\ b # <<>>
      BY <2>2, <3>2, <3>6, BelowFirst
    <3>8. Lays(b, ToSet(b)) /\ ToSet(b) = ToSet(C)
      BY <3>2, BelowStem
    <3> HIDE DEF b
    <3>9. Grows2(b, P[n], J[n] \ {n.id})
      BY <3>2, <3>8 DEF Grows2
    <3>10. Shown(J[n] \ {n.id}, FALSE, {})
      BY DEF Shown
    <3>0. PICK P2, J2, w2 : Spread2(b, P[n], J[n] \ {n.id}, FALSE, {}, P2, J2, w2)
      BY <3>3, <3>9, <3>10, Row2Unfolds
    <3>11. Unfolds(b, P[n], J[n] \ {n.id}, P2, J2, w2) /\ Row2(b, FALSE, {}) = Above(b, w2)
      BY <3>0 DEF Spread2
    <3>12. Above(b, w2)[1] = b[1]
      BY <3>7, <3>11, UnfoldsFirst
    <3>13. w[n] = Row2(b, FALSE, {})
      BY <1>2, <1>4 DEF b
    <3>14. w[n] # <<>>
      <4>1. Spells(w[n], P[n], J[n] \ {n.id})
        BY <3>3, <3>9, <3>10, <3>13, Row2Spells
      <4>2. \E m : m \in ToSet(w[n])
        BY <3>3, <4>1 DEF Spells, Stock
      <4>3. ToSet(<<>>) = {}
        BY DEF ToSet
      <4> QED BY <4>2, <4>3
    <3>15. r[2] = sessionNode(s)
      BY <1>4, <2>2, <3>7, <3>11, <3>12, <3>13, <3>14
    <3>16. n \notin K
      BY <2>2
    <3>17. r[1] # r[2]
      BY <1>4, <2>2, <3>15, SessionNodes
    <3>18. 2 \in DOMAIN r
      <4>1. sessionNode(s) \in M /\ n \in M
        <5>1. n.id \in I
          BY <1>2, <1>4, <3>2 DEF Unfolds, Split
        <5>2. sessionNode(s) \in M
          BY <1>6 DEF Stock
        <5>3. PICK k \in DOMAIN r : r[k] = sessionNode(s)
          BY <1>6, <5>2 DEF Lays
        <5>4. 1 \in DOMAIN r
          BY <1>7, <5>3
        <5> QED BY <1>4, <1>7, <5>2, <5>4
      <4>2. PICK k \in DOMAIN r : r[k] = sessionNode(s)
        BY <1>6, <4>1 DEF Lays
      <4>3. k # 1
        BY <3>15, <3>17, <4>2
      <4> QED BY <1>7, <4>2, <4>3
    <3>19. \A i \in 1..(2 - 1) : r[i] \notin K
      BY <1>4, <3>16
    <3> QED BY <3>15, <3>18, <3>19
  <2> QED BY <2>1, <2>2 DEF LeadsWith
<1>10. PICK j \in DOMAIN r : r[j] = sessionNode(s) /\ \A i \in 1..(j - 1) : r[i] \notin K
  BY <1>9
<1>11. r[j] \in K
  BY <1>7, <1>10, SessionNodes
<1> HIDE DEF K, leaves
<1>12. leaves[1] = sessionNode(s) /\ leaves # <<>>
  BY <1>6, <1>8, <1>10, <1>11, PassedFirst
<1>13. 1 \in DOMAIN leaves
  <2>1. Lays(leaves, M \cap K)
    BY <1>6, <1>8, LaysWhere DEF Passed
  <2>2. leaves \in Seq(M \cap K) /\ Len(leaves) \in Nat /\ DOMAIN leaves = 1..Len(leaves)
    BY <2>1, LaysShape DEF Lays
  <2>3. Len(leaves) # 0
    BY <1>12, <2>2, EmptySeq
  <2> QED BY <2>2, <2>3
<1>14. LeafIds(r) = [k \in DOMAIN leaves |-> leaves[k].id[2]]
  BY DEF LeafIds, leaves
<1>15. LeafIds(r)[1] = s.id
  BY <1>12, <1>13, <1>14, SessionNodes
<1>16. RowsOf(tree, {}) = r
  BY RowsAreRows DEF r
<1> QED BY <1>15, <1>16

\* The tree of a list of sessions is complete, in whatever grouping.
LEMMA TreeIsWhole ==
  ASSUME NEW list, IsSessionList(list), NEW mode
  PROVE  IsWhole(TreeOf(list, mode), list, mode)
<1> DEFINE tree == TreeOf(list, mode)
           T == ToSet(rootSessions(list))
           all == Nodes(tree)
           shownRows == RowsOf(tree, {})
           leaves == LeafIds(shownRows)
<1>1. /\ T = {s \in ToSet(list) : s.parent = Nil} /\ Distinct(T)
      /\ (\E I : Grows3(tree, T, I))
      /\ mode # "workspace" /\ T # {} => \E s \in T : IsLatestOf(s, T) /\ LeadsWith(tree, s)
  BY RootsLay, TreeGrows
<1> HIDE DEF tree
<1>2. PICK I : Grows3(tree, T, I)
  BY <1>1
<1>3. Shown(I, TRUE, {}) /\ Shown(I, FALSE, {})
  BY DEF Shown
<1>4. Ids(rootSessions(list)) = {s.id : s \in T}
  BY DEF Ids
<1> HIDE DEF T
<1>5. Spells(all, T, I) /\ Spells(shownRows, T, I)
  <2>1. Spells(Row3(tree, TRUE, {}), T, I) /\ Spells(Row3(tree, FALSE, {}), T, I)
    BY <1>1, <1>2, <1>3, Row3Spells
  <2> QED BY <2>1, NodesAreRows, RowsAreRows
<1>6. IsPermutation(leaves, Ids(rootSessions(list)))
  <2>1. Distinct(T) /\ Spells(shownRows, T, I)
    BY <1>1, <1>5
  <2> HIDE DEF shownRows
  <2>2. IsPermutation(leaves, {s.id : s \in T})
    BY <2>1, LeafIdsLay
  <2> QED BY <1>4, <2>2
<1>7. Cardinality({n.id : n \in ToSet(all)}) = Len(all)
  BY <1>5, RowIds
<1>8. \A n \in ToSet(all) : n.count = Len(LeafIds(Nodes(<<n>>)))
  <2> HIDE DEF all
  <2> QED BY <1>1, <1>5, CountsAreTrue
<1>9. ASSUME mode # "workspace", leaves # <<>>, NEW t \in T
      PROVE  t.updated <= SessionOf(list, leaves[1]).updated
  <2>1. PICK s \in T : IsLatestOf(s, T) /\ LeadsWith(tree, s)
    BY <1>1, <1>9
  <2>2. leaves[1] = s.id
    BY <1>1, <1>2, <2>1, FirstLeaf
  <2>3. SessionOf(list, s.id) = s
    BY <1>1, <2>1, SessionsById
  <2>4. s.updated >= t.updated /\ s.updated \in Nat /\ t.updated \in Nat
    BY <1>1, <2>1 DEF IsLatestOf, Distinct
  <2> QED BY <2>2, <2>3, <2>4
<1> QED BY <1>6, <1>7, <1>8, <1>9 DEF IsWhole, tree, T

-----------------------------------------------------------------------------
(* What is shown when all or nothing is collapsed                           *)

\* Every root is a leaf of the tree.
LEMMA AllIsListed ==
  ASSUME NEW list, IsSessionList(list), NEW mode
  PROVE  ToSet(LeafIds(Nodes(TreeOf(list, mode)))) = {s.id : s \in ToSet(rootSessions(list))}
<1> DEFINE tree == TreeOf(list, mode)
           T == ToSet(rootSessions(list))
<1>1. Distinct(T) /\ \E I : Grows3(tree, T, I)
  BY RootsLay, TreeGrows
<1> HIDE DEF tree
<1>2. PICK I : Grows3(tree, T, I)
  BY <1>1
<1>3. Shown(I, TRUE, {})
  BY DEF Shown
<1> HIDE DEF T
<1>4. Spells(Nodes(tree), T, I)
  BY <1>1, <1>2, <1>3, Row3Spells, NodesAreRows
<1>5. IsPermutation(LeafIds(Nodes(tree)), {s.id : s \in T})
  BY <1>1, <1>4, LeafIdsLay
<1> QED BY <1>5 DEF IsPermutation, tree, T

\* Nothing is hidden when no group is collapsed ...
LEMMA OpenIsShown ==
  ASSUME NEW list, IsSessionList(list), NEW mode, NEW closed,
         groupPaths(TreeOf(list, mode)) \cap closed = {}
  PROVE  Len(RowsOf(TreeOf(list, mode), closed)) = Len(Nodes(TreeOf(list, mode)))
<1> DEFINE tree == TreeOf(list, mode)
           T == ToSet(rootSessions(list))
           all == Nodes(tree)
           shownRows == RowsOf(tree, closed)
<1>1. Distinct(T) /\ \E I : Grows3(tree, T, I)
  BY RootsLay, TreeGrows
<1>2. groupPaths(tree) \cap closed = {}
  OBVIOUS
<1> HIDE DEF tree, T
<1>3. PICK I : Grows3(tree, T, I)
  BY <1>1
<1>4. Shown(I, TRUE, {})
  BY DEF Shown
<1>5. Spells(all, T, I)
  BY <1>1, <1>3, <1>4, Row3Spells, NodesAreRows
<1>6. I \subseteq groupPaths(tree)
  BY <1>5 DEF Spells, Stock, groupPaths, IsLeaf
<1>7. Shown(I, FALSE, closed)
  BY <1>2, <1>6 DEF Shown
<1>8. Spells(shownRows, T, I)
  BY <1>1, <1>3, <1>7, Row3Spells, RowsAreRows
<1> DEFINE X == {<<"session", s.id>> : s \in T} \cup I
<1>9. Len(all) = Cardinality(X) /\ Len(shownRows) = Cardinality(X)
  <2>1. Len(all) = Cardinality({n.id : n \in ToSet(all)}) /\ {n.id : n \in ToSet(all)} = X
    BY <1>5, RowIds
  <2>2. Len(shownRows) = Cardinality({n.id : n \in ToSet(shownRows)}) /\ {n.id : n \in ToSet(shownRows)} = X
    BY <1>8, RowIds
  <2> QED BY <2>1, <2>2
<1> QED BY <1>9 DEF tree

\* ... and every session is when all are.
LEMMA ClosedIsHidden ==
  ASSUME NEW list, IsSessionList(list), NEW mode, NEW closed,
         groupPaths(TreeOf(list, mode)) # {}, groupPaths(TreeOf(list, mode)) \subseteq closed
  PROVE  LeafIds(RowsOf(TreeOf(list, mode), closed)) = <<>>
<1> DEFINE tree == TreeOf(list, mode)
           T == ToSet(rootSessions(list))
           all == Nodes(tree)
           shownRows == Row3(tree, FALSE, closed)
           N == ToSet(tree)
           M == [n \in N |-> {n}]
           w == [n \in N |-> <<>>]
<1>1. Distinct(T) /\ (\E I : Grows3(tree, T, I)) /\ (GroupsOnly(tree) \/ LeavesOnlyIn(tree))
  BY RootsLay, TreeGrows
<1>2. groupPaths(tree) # {} /\ groupPaths(tree) \subseteq closed
  OBVIOUS
<1> HIDE DEF tree, T
<1>3. PICK I : Grows3(tree, T, I)
  BY <1>1
<1>4. Shown(I, TRUE, {})
  BY DEF Shown
<1>5. Spells(all, T, I)
  BY <1>1, <1>3, <1>4, Row3Spells, NodesAreRows
<1>6. I \subseteq groupPaths(tree) /\ groupPaths(tree) \subseteq I
  <2>1. I \subseteq groupPaths(tree)
    BY <1>5 DEF Spells, Stock, groupPaths, IsLeaf
  <2>2. \A m \in ToSet(all) : m.kind # "session" => m.id \in I
    BY <1>5, SessionNodes DEF Spells, Stock
  <2> QED BY <2>1, <2>2 DEF groupPaths, IsLeaf
<1>7. PICK P, J : Split(N, P, T) /\ Split(N, J, I) /\ \A n \in N : Sprout3(n, P[n], J[n])
  BY <1>3 DEF Grows3, Grove3
<1>8. Lays(tree, N)
  BY <1>3 DEF Grows3
<1> HIDE DEF N
<1>9. \A n \in N : n.kind # "session" /\ n.id \in closed
  <2>1. PICK i \in I : TRUE
    BY <1>2, <1>6
  <2>2. PICK n \in N : i \in J[n]
    BY <1>7 DEF Split
  <2>3. n.kind # "session"
    <3>1. ~Sprout0(n, P[n], J[n])
      BY <2>2 DEF Sprout0
    <3> QED BY <1>7, <3>1 DEF Sprout3, Stem
  <2>4. GroupsOnly(tree)
    BY <1>1, <2>3 DEF LeavesOnlyIn, N
  <2>5. ASSUME NEW m \in N PROVE m.id \in closed
    <3>1. m.kind # "session"
      BY <2>4 DEF GroupsOnly, N
    <3>2. ~Sprout0(m, P[m], J[m])
      BY <3>1, SproutsAreGrown
    <3>3. m.id \in J[m]
      BY <1>7, <3>2 DEF Sprout3
    <3>4. m.id \in I
      BY <1>7, <3>3 DEF Split
    <3> QED BY <1>2, <1>6, <3>4
  <2> QED BY <2>4, <2>5 DEF GroupsOnly, N
<1>10. \A n \in N : Below(n, FALSE, closed) = <<>>
  BY <1>9 DEF Below
<1>11. Len(tree) \in Nat /\ DOMAIN tree = 1..Len(tree) /\ \A k \in 1..Len(tree) : tree[k] \in N
  BY <1>8, LaysShape
<1>12. shownRows = FlattenSeq([k \in 1..Len(tree) |-> <<tree[k]>>])
  <2>1. \A k \in 1..Len(tree) : <<tree[k]>> \o Row2(Below(tree[k], FALSE, closed), FALSE, closed) = <<tree[k]>>
    <3>1. ASSUME NEW k \in 1..Len(tree)
          PROVE <<tree[k]>> \o Row2(Below(tree[k], FALSE, closed), FALSE, closed) = <<tree[k]>>
      <4>1. Row2(Below(tree[k], FALSE, closed), FALSE, closed) = <<>>
        BY <1>10, <1>11, NoRows
      <4>2. <<tree[k]>> \in Seq({tree[k]})
        OBVIOUS
      <4>3. <<tree[k]>> \o <<>> = <<tree[k]>>
        BY <4>2, ConcatEmptySeq
      <4> QED BY <4>1, <4>3
    <3> QED BY <3>1
  <2> QED BY <1>11, <2>1 DEF Row3
<1>14. Lays(shownRows, N)
  <2> DEFINE m == Len(tree)
             q == [k \in 1..m |-> <<tree[k]>>]
             Z == [k \in 1..m |-> {tree[k]}]
  <2>1. q = [k \in 1..m |-> q[k]] /\ \A k \in 1..m : Lays(q[k], Z[k])
    BY LaysFew
  <2>2. \A i, j \in 1..m : i # j => Z[i] \cap Z[j] = {}
    BY <1>8, <1>11 DEF Lays
  <2>3. UNION {Z[k] : k \in 1..m} = N
    BY <1>8, <1>11 DEF Lays
  <2> HIDE DEF q, Z, shownRows
  <2>4. Lays(FlattenSeq(q), UNION {Z[k] : k \in 1..m})
    BY <1>11, <2>1, <2>2, LaysFlatten
  <2> QED BY <1>12, <2>3, <2>4 DEF q
<1> HIDE DEF shownRows
<1>15. Where(shownRows, IsLeaf) = <<>>
  <2>1. DOMAIN shownRows = 1..Len(shownRows) /\ \A k \in DOMAIN shownRows : shownRows[k] \in N
    BY <1>14, LaysShape
  <2>2. Where(shownRows, IsLeaf) = Passed(shownRows, {})
    BY <1>9, <2>1 DEF Where, Passed, IsLeaf
  <2>3. Lays(Passed(shownRows, {}), N \cap {})
    BY <1>14, LaysWhere DEF Passed
  <2>4. N \cap {} = {}
    OBVIOUS
  <2> QED BY <2>2, <2>3, <2>4, LaysNone
<1>16. LeafIds(shownRows) = <<>>
  <2>1. LeafIds(shownRows) = [k \in DOMAIN <<>> |-> <<>>[k].id[2]]
    BY <1>15 DEF LeafIds
  <2> QED BY <2>1
<1>17. RowsOf(tree, closed) = shownRows
  BY RowsAreRows DEF shownRows
<1> QED BY <1>16, <1>17 DEF tree

-----------------------------------------------------------------------------
(* The list is a list of sessions, and so is what is shown of it.           *)

\* A filter of a list of sessions is one.
LEMMA FilterIsList ==
  ASSUME NEW list, IsSessionList(list), NEW K
  PROVE  /\ IsSessionList(Passed(list, K))
         /\ ToSet(Passed(list, K)) = ToSet(list) \cap K
<1> DEFINE p == Passed(list, K)
           T == ToSet(list) \cap K
<1>1. /\ Lays(list, ToSet(list))
      /\ \A s \in ToSet(list) : s.id \in Nat /\ s.updated \in Nat
      /\ \A s, t \in ToSet(list) : s.id = t.id => s = t
  BY SessionsLay
<1>2. Lays(p, T)
  BY <1>1, LaysWhere DEF Passed
<1> HIDE DEF p
<1>3. ToSet(p) = T /\ DOMAIN p = 1..Len(p) /\ \A i \in DOMAIN p : p[i] \in T
  BY <1>2, LaysShape
<1>4. p \in Seq(ToSet(p)) /\ \A i, j \in DOMAIN p : p[i] = p[j] => i = j
  BY <1>2, <1>3 DEF Lays
<1>5. \A i \in DOMAIN p : p[i].id \in Nat /\ p[i].updated \in Nat
  BY <1>1, <1>3
<1>6. \A i, j \in DOMAIN p : p[i].id = p[j].id => i = j
  BY <1>1, <1>3, <1>4
<1>7. IsSessionList(p)
  BY <1>4, <1>5, <1>6 DEF IsSessionList
<1> QED BY <1>3, <1>7 DEF p

\* What stands at a position of a list is in it.
LEMMA DomainOfList ==
  ASSUME NEW list, IsSessionList(list)
  PROVE  \A i \in DOMAIN list : list[i] \in ToSet(list)
BY SessionsLay, LaysShape

\* What the filter lists.
LEMMA FilteredIsList ==
  ASSUME IsSessionList(sessions)
  PROVE  IsSessionList(filterSessions)
<1>1. CASE filter = None
  BY <1>1 DEF filterSessions
<1>2. CASE filter # None
  <2> DEFINE K == {s \in ToSet(sessions) : s.repo = filter}
  <2>1. filterSessions = Passed(sessions, K)
    BY <1>2, DomainOfList DEF filterSessions, Where, Passed
  <2> HIDE DEF K
  <2> QED BY <2>1, FilterIsList
<1> QED BY <1>1, <1>2

\* Only what is hidden is missing from the tree.
LEMMA TreeListIsList ==
  ASSUME IsSessionList(sessions)
  PROVE  /\ IsSessionList(treeSessions)
         /\ \A s \in ToSet(filterSessions) : hideStale /\ ~Hidden(s) => s \in ToSet(treeSessions)
         /\ \A s \in ToSet(filterSessions) : ~hideStale => s \in ToSet(treeSessions)
<1>1. IsSessionList(filterSessions)
  BY FilteredIsList
<1>2. CASE ~hideStale
  BY <1>1, <1>2 DEF treeSessions
<1>3. CASE hideStale
  <2> DEFINE K == {s \in ToSet(filterSessions) : ~Hidden(s)}
  <2>1. treeSessions = Passed(filterSessions, K)
    BY <1>1, <1>3, DomainOfList DEF treeSessions, Where, Passed
  <2>2. \A s \in ToSet(filterSessions) : ~Hidden(s) => s \in ToSet(filterSessions) \cap K
    OBVIOUS
  <2> HIDE DEF K
  <2>3. IsSessionList(treeSessions) /\ ToSet(treeSessions) = ToSet(filterSessions) \cap K
    BY <1>1, <2>1, FilterIsList
  <2> QED BY <1>3, <2>2, <2>3
<1> QED BY <1>2, <1>3

\* The inductive invariant: the list is one of sessions.
ListsInv == IsSessionList(sessions)

\* The first list is a list of sessions,
LEMMA ListsStart == Init => ListsInv
<1> SUFFICES ASSUME Init PROVE ListsInv
  OBVIOUS
<1>1. sessions \in Lists
  BY DEF Init, SidebarInit
<1> QED BY <1>1, SidebarAssumption DEF ListsInv

\* and so is every later one.
LEMMA ListsKeep == ListsInv /\ [Next]_vars => ListsInv'
<1> SUFFICES ASSUME ListsInv, [Next]_vars PROVE ListsInv'
  OBVIOUS
<1>1. sessions' = sessions \/ sessions' \in Samples \cup Lists
  <2>1. CASE Sample
    BY <2>1 DEF Sample
  <2>2. CASE SidebarNext
    BY <2>2 DEF SidebarNext, toggleCollapse, CollapseOrExpandAll, setGroup, toggleDisplayMode,
                dismiss, setFilter, Menus, ChangeSetting, ServeSettings, SettingsAnswer, ListChanges,
                OpenSession, Notified, Reopen, Collapse, panelRest, props, sidebarVars
  <2>3. CASE UNCHANGED sidebarVars
    BY <2>3 DEF sidebarVars
  <2>4. CASE UNCHANGED vars
    BY <2>4 DEF vars, sidebarVars
  <2> QED BY <2>1, <2>2, <2>3, <2>4 DEF Next
<1>2. \A list \in Samples \cup Lists : IsSessionList(list)
  BY SidebarAssumption, SamplesAssumption
<1> QED BY <1>1, <1>2 DEF ListsInv

\* The list is always a list of sessions.
LEMMA ListsHold == Spec => []ListsInv
<1> QED BY ListsStart, ListsKeep, PTL DEF Spec

-----------------------------------------------------------------------------
(* The theorems of the list                                                 *)

\* Every root is one leaf of the tree and every sub-agent in the family of its root
\* (NothingDisappears), whatever the list, the grouping and the depth of the families.
THEOREM NothingLost == Spec => []NothingDisappears
<1>1. ListsInv => TreeIsComplete
  <2> SUFFICES ASSUME ListsInv, NEW mode \in Modes
               PROVE  IsWhole(TreeOf(sessions, mode), sessions, mode)
    BY DEF TreeIsComplete
  <2> QED BY TreeIsWhole DEF ListsInv
<1>2. ListsInv => SubAgentsAreReached
  <2> SUFFICES ASSUME ListsInv, NEW id \in Ids(sessions),
                      SessionOf(sessions, resolveFamilyRoot(sessions, id)).parent = Nil
               PROVE  /\ IsPermutation(activeSessionFamily(sessions, id),
                                       {t \in Ids(sessions) : resolveFamilyRoot(sessions, t)
                                                              = resolveFamilyRoot(sessions, id)})
                      /\ activeSessionFamily(sessions, id)[1] = resolveFamilyRoot(sessions, id)
    BY DEF SubAgentsAreReached
  <2> QED BY FamilyIsWhole DEF ListsInv
<1>3. ListsInv => NothingDisappears
  BY <1>1, <1>2 DEF NothingDisappears
<1> QED BY <1>3, ListsHold, PTL

\* What is open, unread or not stale is listed, under whatever grouping, and has a row
\* unless a group around it is collapsed (KeptIsListed).
THEOREM KeptListed == Spec => []KeptIsListed
<1>1. ASSUME ListsInv, NEW s \in ToSet(rootSessions(filterSessions)),
             s.id \in keepIds \/ ~isStaleSession(s) \/ ~hideStale
      PROVE  s.id \in ToSet(LeafIds(Nodes(shownTree)))
  <2>1. IsSessionList(filterSessions) /\ IsSessionList(treeSessions)
    BY <1>1, FilteredIsList, TreeListIsList DEF ListsInv
  <2>2. s \in ToSet(filterSessions) /\ s.parent = Nil
    BY <1>1, <2>1, RootsLay
  <2>3. s \in ToSet(treeSessions)
    BY <1>1, <2>2, TreeListIsList DEF ListsInv, Hidden
  <2>4. s \in ToSet(rootSessions(treeSessions))
    BY <2>1, <2>2, <2>3, RootsLay
  <2>5. ToSet(LeafIds(Nodes(shownTree))) = {t.id : t \in ToSet(rootSessions(treeSessions))}
    BY <2>1, AllIsListed DEF shownTree
  <2> QED BY <2>4, <2>5
<1>2. ASSUME ListsInv, allCollapsed PROVE LeafIds(RowsOf(shownTree, collapsed)) = <<>>
  <2>1. IsSessionList(treeSessions)
    BY <1>2, TreeListIsList DEF ListsInv
  <2> QED BY <1>2, <2>1, ClosedIsHidden DEF allCollapsed, shownTree
<1>3. ASSUME ListsInv, groupPaths(shownTree) \cap collapsed = {}
      PROVE  Len(RowsOf(shownTree, collapsed)) = Len(Nodes(shownTree))
  <2>1. IsSessionList(treeSessions)
    BY <1>3, TreeListIsList DEF ListsInv
  <2> QED BY <1>3, <2>1, OpenIsShown DEF shownTree
<1>4. ListsInv => KeptIsListed
  BY <1>1, <1>2, <1>3 DEF KeptIsListed, KeepsListed
<1> QED BY <1>4, ListsHold, PTL
=================================================================================
