------------------------------ MODULE Selection -------------------------------
(***************************************************************************)
(* What a loop appends that goes over a slice and skips some of it: the    *)
(* elements at the positions of a set, in their order.  The k-th position  *)
(* is found by its rank, so that nothing here is recursive.                *)
(***************************************************************************)
EXTENDS Naturals, Sequences, FiniteSets

\* How many of the numbers in I are at most i.
Rank(I, i) == Cardinality({j \in I : j <= i})

\* The k-th of the numbers in I.
Nth(I, k) == CHOOSE i \in I : Rank(I, i) = k

Select(s, I) == [k \in 1 .. Cardinality(I) |-> s[Nth(I, k)]]
=============================================================================
