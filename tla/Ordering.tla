------------------------------ MODULE Ordering ------------------------------
(* The elements of a finite set one after another, as a total order has them. *)
EXTENDS Naturals, FiniteSets

\* the i-th has i - 1 before it
Ordered(S, Before(_, _)) ==
    [i \in 1 .. Cardinality(S) |-> CHOOSE x \in S : Cardinality({y \in S : Before(y, x)}) = i - 1]
=============================================================================
