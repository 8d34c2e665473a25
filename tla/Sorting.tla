------------------------------ MODULE Sorting ------------------------------
(* toSorted, of a set under a strict total order: each element's place is   *)
(* the number of those before it.                                           *)
EXTENDS Naturals, FiniteSets, Sequences

Sorted(S, Before(_, _)) ==
  [n \in 1 .. Cardinality(S) |-> CHOOSE x \in S : Cardinality({y \in S : Before(y, x)}) = n - 1]
=============================================================================
