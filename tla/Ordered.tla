------------------------------ MODULE Ordered ------------------------------
(***************************************************************************)
(* The elements of a finite set of numbers from the least to the greatest. *)
(***************************************************************************)
EXTENDS Naturals, FiniteSets

Rank(S, k) == Cardinality({j \in S : j <= k})
InOrder(S) == [n \in 1 .. Cardinality(S) |-> CHOOSE k \in S : Rank(S, k) = n]
=============================================================================
