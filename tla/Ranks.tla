-------------------------------- MODULE Ranks --------------------------------
(* Sets of chunk numbers in order: IndexedDB's key order, and a batch's. *)
EXTENDS Integers, FiniteSets

Rank(S, k) == Cardinality({j \in S : j < k})

\* The numbers of S, lowest first.
Ascending(S) == [i \in 1..Cardinality(S) |-> CHOOSE k \in S : Rank(S, k) = i - 1]

=============================================================================
