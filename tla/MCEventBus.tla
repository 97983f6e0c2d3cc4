----------------------------- MODULE MCEventBus -----------------------------
(***************************************************************************)
(* An instance of EventBus for TLC: two connections on channels of         *)
(* capacity one, a sender with two events and one with a single event, so  *)
(* that a channel fills, a Send drops, two walks interleave, and one       *)
(* connection sees two events of the same sender.                          *)
(***************************************************************************)
EXTENDS EventBus

CONSTANTS s1, s2

TwoAndOne == [s \in Senders |-> IF s = s1 THEN 2 ELSE 1]
=============================================================================
