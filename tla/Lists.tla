------------------------------- MODULE Lists -------------------------------
(* Picking from a list and sorting one, defined by the places where entries  *)
(* end up rather than by recursion, so that proofs can use them.             *)
EXTENDS Naturals, Sequences, FiniteSets

\* How many of places come no later than p.
PlaceAmong(p, places) == Cardinality({q \in places : q <= p})

\* The entries of list at the given places, in their order.
EntriesAt(list, places) ==
  [n \in 1..Cardinality(places) |->
     list[CHOOSE p \in places : PlaceAmong(p, places) = n]]

\* How many entries of a list of numbers are not to stand after the one at p.
Rank(list, p) ==
  Cardinality({q \in DOMAIN list : list[q] < list[p] \/ (list[q] = list[p] /\ q <= p)})

\* A list of numbers in ascending order.
Sorted(list) ==
  [n \in DOMAIN list |-> list[CHOOSE p \in DOMAIN list : Rank(list, p) = n]]
=============================================================================
