---------------------------- MODULE Multiplicity ----------------------------
(***************************************************************************)
(* How often a value stands in a buffer.                                   *)
(***************************************************************************)
EXTENDS Naturals, Sequences, FiniteSets

Places(s, e) == {i \in 1..Len(s) : s[i] = e}

Buffered(s, e) == Cardinality(Places(s, e))
=============================================================================
