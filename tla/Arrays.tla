--------------------------------- MODULE Arrays ---------------------------------
(***************************************************************************)
(* Array.prototype.filter, and sort for an order that is total on the set.      *)
(***************************************************************************)
EXTENDS Naturals, FiniteSets, Sequences, SequencesExt

Where(list, keep(_)) ==
  FlattenSeq([i \in DOMAIN list |-> IF keep(list[i]) THEN <<list[i]>> ELSE <<>>])

Sorted(S, less(_, _)) ==
  LET before == [x \in S |-> Cardinality({y \in S : less(y, x)})]
  IN [k \in 1..Cardinality(S) |-> CHOOSE x \in S : before[x] = k - 1]
=============================================================================
