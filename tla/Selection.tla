----------------------------- MODULE Selection -----------------------------
(* The values of a sequence at some of its positions, in order: SelectSeq   *)
(* without its recursion, so that it can be reasoned about.                *)
EXTENDS Naturals, Sequences, FiniteSets

\* How many members of S come up to i.
Rank(S, i) == Cardinality({j \in S : j <= i})

\* The values of v at the positions S, in the order of the positions.
Picked(S, v) == [k \in 1..Cardinality(S) |-> v[CHOOSE i \in S : Rank(S, i) = k]]
=============================================================================
