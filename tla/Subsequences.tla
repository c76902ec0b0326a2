---------------------------- MODULE Subsequences ----------------------------
(***************************************************************************)
(* What a list comprehension with a condition returns: the elements at     *)
(* some places of a list, in their order.                                  *)
(***************************************************************************)
EXTENDS Naturals, Sequences, FiniteSets

\* How many of the places come up to place i.
Rank(places, i) == Cardinality({j \in places : j <= i})

\* The k-th of the places.
Place(places, k) == CHOOSE i \in places : Rank(places, i) = k

At(s, places) == [k \in 1 .. Cardinality(places) |-> s[Place(places, k)]]
=============================================================================
