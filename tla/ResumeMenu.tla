------------------------------- MODULE ResumeMenu -------------------------------
(***************************************************************************)
(* The menu of resume commands (ResumeButton): fetched when it is first opened, *)
(* one of them copied (useCopy).                                               *)
(***************************************************************************)
EXTENDS Requests

VARIABLES
  menuOpen, options,  \* options: the commands were fetched
  fetching,           \* loading
  copied, copyTimers  \* useCopy's mark, and its timers, none of which replaces another

resumeVars == <<menuOpen, options, fetching, copied, copyTimers>>
copyVars == <<copied, copyTimers>>

ResumeInit ==
  /\ menuOpen = FALSE /\ options = FALSE /\ fetching = FALSE /\ copied = FALSE /\ copyTimers = 0

\* Every click fetches what is not there and not under way, the one that closes too.
Needed == ~options /\ ~fetching

handleClick ==
  /\ Act /\ menuOpen' = ~menuOpen
  /\ IF Needed THEN fetching' = TRUE /\ Send([kind |-> "resume"]) ELSE UNCHANGED <<fetching, calls>>
  /\ UNCHANGED <<faults, missed, options, copyVars>>

ServeResume ==
  \E i \in ToServe : Serve(i, "commands") /\ UNCHANGED <<acts, missed, resumeVars>>

ResumeAnswer ==
  \E i \in ToAnswer :
    /\ options' = (options \/ ok(i)) /\ fetching' = FALSE
    /\ missed' = (missed \/ ~ok(i)) /\ Answered(i, <<>>)
    /\ UNCHANGED <<faults, acts, menuOpen, copyVars>>

\* A command is copied and the menu closed; a press elsewhere or Escape closes it.
CopyCommand ==
  /\ Act /\ menuOpen /\ options /\ menuOpen' = FALSE /\ copied' = TRUE /\ copyTimers' = copyTimers + 1
  /\ UNCHANGED <<calls, faults, missed, options, fetching>>

CloseMenu ==
  /\ Act /\ menuOpen /\ menuOpen' = FALSE
  /\ UNCHANGED <<calls, faults, missed, options, fetching, copyVars>>

CopyTimerFires ==
  /\ copyTimers > 0 /\ copyTimers' = copyTimers - 1 /\ copied' = FALSE
  /\ UNCHANGED <<requestVars, menuOpen, options, fetching>>

ResumeNext ==
  \/ handleClick \/ ServeResume \/ ResumeAnswer \/ CopyCommand \/ CloseMenu \/ CopyTimerFires
  \/ LoseRequest /\ UNCHANGED <<acts, missed, resumeVars>>
=============================================================================
