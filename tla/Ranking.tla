------------------------------- MODULE Ranking -------------------------------
(***************************************************************************)
(* A finite set put in order, for what the code sorts or filters.          *)
(***************************************************************************)
EXTENDS Naturals, FiniteSets

(* The place of x in S, of which the pairs in R say what comes before what. *)
Place(x, S, R) == Cardinality({y \in S : <<y, x>> \in R}) + 1

Ranked(S, R) == [n \in 1..Cardinality(S) |-> CHOOSE x \in S : Place(x, S, R) = n]
=============================================================================
