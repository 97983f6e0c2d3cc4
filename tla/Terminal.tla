-------------------------------- MODULE Terminal --------------------------------
(***************************************************************************)
(* The terminal of a session: TerminalPanel and useTerminal, against a server   *)
(* that runs the agent for as long as its socket is open.                       *)
(***************************************************************************)
EXTENDS Requests

CONSTANT MaxDelay  \* the longest wait before a retry, in seconds

VARIABLES
  panel,           \* "closed", "loading" (xterm is being imported) or "shown"
  sockets,         \* <<[state, mine, pty]>>: mine, of the panel that is mounted; the
                   \* size the agent was told, 0 at first
  wsRef,           \* a socket, or 0
  retryTimer, retryDelay, disposed, status,
  size,            \* of the container: 1 or 2
  frame            \* doFit waits for the next frame

terminalVars == <<panel, sockets, wsRef, retryTimer, retryDelay, disposed, status, size, frame>>
hook == <<wsRef, retryTimer, retryDelay, disposed, status>>
noRequest == UNCHANGED <<calls, missed>>

TerminalInit ==
  /\ panel = "closed" /\ sockets = <<>> /\ wsRef = 0 /\ retryTimer = FALSE /\ retryDelay = 1
  /\ disposed = FALSE /\ status = "disconnected" /\ size = 1 /\ frame = FALSE

IsOpen(ws) == ws # 0 /\ sockets[ws].state = "open"

-----------------------------------------------------------------------------
(* useTerminal.                                                             *)

\* connect does nothing when its socket is open.
connect ==
  IF IsOpen(wsRef) THEN UNCHANGED <<sockets, wsRef, retryDelay, disposed, status>>
  ELSE /\ disposed' = FALSE /\ retryDelay' = 1 /\ status' = "connecting"
       /\ sockets' = Append(sockets, [state |-> "connecting", mine |-> TRUE, pty |-> 0])
       /\ wsRef' = Len(sockets) + 1

\* onopen: the effect on the status fits the fresh PTY.
onopen ==
  \E s \in DOMAIN sockets :
    /\ sockets[s].state = "connecting"
    /\ sockets' = [sockets EXCEPT ![s].state = "open"]
    /\ sockets[s].mine /\ retryDelay' = 1 /\ status' = "connected" /\ frame' = TRUE
    /\ noRequest /\ UNCHANGED <<faults, acts, panel, wsRef, retryTimer, disposed, size>>

\* Mutant of retries: onclose schedules nothing.
retries_Never == FALSE

\* Whether onclose schedules a retry.
retries == ~disposed

\* onclose: the connection is refused or lost, or the agent ends; or the socket that
\* disconnect closed is gone.  The handlers of a panel that was unmounted change
\* nothing that is seen.
onclose ==
  \E s \in DOMAIN sockets :
    /\ \/ sockets[s].state \in {"connecting", "open"} /\ faults < MaxFaults /\ faults' = faults + 1
       \/ sockets[s].state = "closing" /\ UNCHANGED faults
    /\ sockets' = [sockets EXCEPT ![s].state = "closed"]
    /\ IF ~sockets[s].mine THEN UNCHANGED hook
       ELSE /\ wsRef' = 0
            /\ IF retries
               THEN /\ status' = "disconnected" /\ retryTimer' = TRUE
                    /\ retryDelay' = IF 2 * retryDelay < MaxDelay THEN 2 * retryDelay ELSE MaxDelay
               ELSE UNCHANGED <<status, retryTimer, retryDelay>>
            /\ UNCHANGED disposed
    /\ noRequest /\ UNCHANGED <<acts, panel, size, frame>>

RetryFires ==
  /\ retryTimer /\ retryTimer' = FALSE
  /\ IF disposed THEN UNCHANGED <<sockets, wsRef, retryDelay, disposed, status>> ELSE connect
  /\ noRequest /\ UNCHANGED <<faults, acts, panel, size, frame>>

-----------------------------------------------------------------------------
(* TerminalPanel.                                                           *)

OpenTerminal ==
  /\ Act /\ panel = "closed" /\ panel' = "loading"
  /\ wsRef' = 0 /\ retryTimer' = FALSE /\ retryDelay' = 1 /\ disposed' = FALSE
  /\ status' = "disconnected" /\ frame' = FALSE
  /\ noRequest /\ UNCHANGED <<faults, sockets, size>>

\* loadXterm connects at the end, unless the panel is gone by then.
loadXterm ==
  /\ panel = "loading" /\ panel' = "shown" /\ connect /\ frame' = TRUE
  /\ noRequest /\ UNCHANGED <<faults, acts, retryTimer, size>>

\* Mutant of Left: a socket that is connecting is left alone.
Left_OpenOnly(s) == IF s = wsRef /\ sockets[s].state = "open" THEN "closing" ELSE sockets[s].state

\* disconnect closes its socket, open or not yet.
Left(s) == IF s = wsRef THEN "closing" ELSE sockets[s].state

\* The cleanup disconnects: the timer is cancelled, the socket closed.
CloseTerminal ==
  /\ Act /\ panel # "closed" /\ panel' = "closed"
  /\ disposed' = TRUE /\ retryTimer' = FALSE /\ wsRef' = 0 /\ status' = "disconnected"
  /\ sockets' = [s \in DOMAIN sockets |->
                   [sockets[s] EXCEPT !.mine = FALSE, !.state = Left(s)]]
  /\ frame' = FALSE /\ noRequest /\ UNCHANGED <<faults, retryDelay, size>>

\* doFit's frame: resize is sent when the socket is open by then.
Fitted == IF IsOpen(wsRef) THEN [sockets EXCEPT ![wsRef].pty = size] ELSE sockets

FrameFires ==
  /\ frame /\ frame' = FALSE /\ sockets' = Fitted
  /\ noRequest /\ UNCHANGED <<faults, acts, panel, hook, size>>

\* The ResizeObserver of the container.
ResizeContainer ==
  /\ Act /\ size' = 3 - size /\ frame' = (panel = "shown")
  /\ noRequest /\ UNCHANGED <<faults, panel, sockets, hook>>

TerminalNext ==
  \/ onopen \/ onclose \/ RetryFires \/ OpenTerminal \/ loadXterm \/ CloseTerminal \/ FrameFires
  \/ ResizeContainer
=============================================================================
