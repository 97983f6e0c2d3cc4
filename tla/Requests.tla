-------------------------------- MODULE Requests --------------------------------
(***************************************************************************)
(* The requests a page has under way through apiClient: fetchJson and        *)
(* fetchVoid resolve with the answer or reject, in any order, unless Ordered. *)
(***************************************************************************)
EXTENDS Integers, Sequences, SequencesExt, FiniteSets

CONSTANTS
  Ordered,         \* TRUE: requests are served and answered as they are sent
  MaxFaults,       \* bound: requests that fail
  MaxActs,         \* bound: what users do
  None,
  Waiting, Failed  \* a request without an answer yet, one that was rejected

ASSUME RequestAssumption ==
  /\ Ordered \in BOOLEAN /\ MaxFaults \in Nat /\ MaxActs \in Nat /\ Waiting # Failed

VARIABLES
  calls,           \* [op, answer] in the order they were sent
  faults, acts,    \* so far
  missed           \* history: the last reload of the panel failed

requestVars == <<calls, faults, acts, missed>>

Sent(ops) == [i \in DOMAIN ops |-> [op |-> ops[i], answer |-> Waiting]]
Send(op) == calls' = Append(calls, [op |-> op, answer |-> Waiting])

Act == acts < MaxActs /\ acts' = acts + 1

\* The requests the server may take up next, and the answers that may arrive.
ToServe == {i \in DOMAIN calls :
              /\ calls[i].answer = Waiting
              /\ Ordered => \A j \in 1..(i - 1) : calls[j].answer # Waiting}
ToAnswer == {i \in DOMAIN calls : calls[i].answer # Waiting /\ (Ordered => i = 1)}

\* The server does its part: `answer` reaches the page, or is lost.
Serve(i, answer) ==
  \/ calls' = [calls EXCEPT ![i].answer = answer] /\ UNCHANGED faults
  \/ /\ faults < MaxFaults /\ faults' = faults + 1
     /\ calls' = [calls EXCEPT ![i].answer = Failed]

\* The request never reaches the server.
LoseRequest ==
  /\ faults < MaxFaults /\ faults' = faults + 1
  /\ \E i \in ToServe : calls' = [calls EXCEPT ![i].answer = Failed]

\* The answer is handled, and `ops` are sent then.
Answered(i, ops) == calls' = RemoveAt(calls, i) \o Sent(ops)

ok(i) == calls[i].answer # Failed
=============================================================================
