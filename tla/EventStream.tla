------------------------------ MODULE EventStream ------------------------------
(***************************************************************************)
(* useSSE: one EventSource of the page, the queue its listeners fill and    *)
(* the loop that takes the events one by one.  The browser reconnects by    *)
(* itself; what the server sends while the stream is down is lost.  The     *)
(* entries about the connection, which only colour a dot, are left out.     *)
(***************************************************************************)
EXTENDS Integers, Sequences, SequencesExt

CONSTANTS
  MaxTrouble,     \* bound: blips, restarts of the server, lost tries
  None,
  Waiting, Failed \* a request without an answer yet, one that failed

ASSUME StreamAssumption == MaxTrouble \in Nat

VARIABLES
  pid,          \* the server process
  up,           \* the stream is open
  queue,        \* events offered to the queue, in order
  serverPid,    \* the pid of the last "started" event, None before the first
  pagePid,      \* the process that served the page
  trouble       \* blips, restarts and lost tries so far

streamVars == <<pid, up, queue, serverPid, pagePid, trouble>>
exceptTrouble == <<pid, up, queue, serverPid, pagePid>>

SSEEvent(type, arg) == [type |-> type, arg |-> arg]

StreamInit ==
  /\ pid = 1 /\ up = FALSE /\ queue = <<>>
  /\ serverPid = None /\ pagePid = 1 /\ trouble = 0

\* The server writes to every open stream.
Send(events) == queue' = IF up THEN queue \o events ELSE queue

\* onopen, and the "started" event the server writes first.
Connect ==
  /\ ~up
  /\ up' = TRUE
  /\ queue' = Append(queue, SSEEvent("started", pid))
  /\ UNCHANGED <<pid, serverPid, pagePid, trouble>>

Trouble == trouble < MaxTrouble /\ trouble' = trouble + 1

\* onerror: a blip, or the server process was replaced.
ConnectionLost ==
  /\ up /\ Trouble
  /\ up' = FALSE
  /\ pid' \in {pid, pid + 1}
  /\ UNCHANGED <<queue, serverPid, pagePid>>

\* Mutant of Reload: no event reloads the page.
Reload_Never(e) == FALSE

\* window.location.reload(): everything of the page starts over.
Reload(e) == \/ e.type = "reset"
             \/ e.type = "started" /\ serverPid # None /\ e.arg # serverPid

\* The stream's part of handling the head of the queue.
Take(e) ==
  IF Reload(e)
  THEN /\ up' = FALSE /\ queue' = <<>> /\ serverPid' = None /\ pagePid' = pid
       /\ UNCHANGED <<pid, trouble>>
  ELSE /\ queue' = Tail(queue)
       /\ serverPid' = IF e.type = "started" THEN e.arg ELSE serverPid
       /\ UNCHANGED <<pid, up, pagePid, trouble>>
===============================================================================
