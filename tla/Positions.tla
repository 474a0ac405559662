----------------------------- MODULE Positions -----------------------------
(***************************************************************************)
(* What a loop that copies some elements of a slice, in their order,       *)
(* leaves behind: filterAfter of the rate limiter and normalizeText do.    *)
(***************************************************************************)
EXTENDS Naturals, Sequences, FiniteSets

\* How many elements of a set of numbers come up to i.
Rank(S, i) == Cardinality({x \in S : x <= i})

\* The j-th smallest element of a set of numbers.
Nth(S, j) == CHOOSE i \in S : Rank(S, i) = j

\* The elements of s at the positions of K, in their order.
Picked(s, K) == [j \in 1 .. Cardinality(K) |-> s[Nth(K, j)]]
=============================================================================
