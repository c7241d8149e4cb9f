------------------------------ MODULE Sublists ------------------------------
(***************************************************************************)
(* The part of a list that lies at some of its positions, in order.        *)
(***************************************************************************)
EXTENDS Naturals, SequencesExt

(* The n-th of a set of positions. *)
Nth(I, n) == CHOOSE i \in I : Cardinality({k \in I : k <= i}) = n

Kept(s, I) == [n \in 1 .. Cardinality(I) |-> s[Nth(I, n)]]
=============================================================================
