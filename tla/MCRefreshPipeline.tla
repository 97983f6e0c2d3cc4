-------------------------- MODULE MCRefreshPipeline -------------------------
(***************************************************************************)
(* Instances of RefreshPipeline for TLC, all with one source s1: session a *)
(* on its own, or a and its child b.                                       *)
(***************************************************************************)
EXTENDS RefreshPipeline

CONSTANTS a, b, s1

OneSource == [i \in Ids |-> s1]
Flat == [i \in Ids |-> NoParent]
ChildOfA == [i \in Ids |-> IF i = b THEN a ELSE NoParent]
=============================================================================
