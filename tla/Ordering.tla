------------------------------ MODULE Ordering ------------------------------
(* ORDER BY: the numbers of a finite set, rowids or dates, the smallest first.
   The n-th of them is the one with n numbers up to it. *)
EXTENDS Integers, FiniteSets

InOrder(S) ==
    [n \in 1 .. Cardinality(S) |-> CHOOSE i \in S : Cardinality({j \in S : j <= i}) = n]
=============================================================================
