---------------------------- MODULE VectorClock ----------------------------
(* src/backend/vector_clock.go, and the comparison of node.go that every     *)
(* replica uses.  The program's clock is a map from node ids to counters.    *)
(* It only ever gets counters from Increment, which starts at 1, so an entry *)
(* that is missing and an entry that is 0 are the same thing: a clock is a   *)
(* function on all nodes, with 0 where the map has no entry.                 *)
EXTENDS Integers

CONSTANT Node       \* ids of the cluster's nodes

Clock == [Node -> Nat]

NewVectorClock == [n \in Node |-> 0]

Increment(vc, n) == [vc EXCEPT ![n] = @ + 1]

\* The entry of m is taken from other when vc has none or a smaller one.
Merge(vc, other) ==
  [m \in Node |-> IF other[m] > vc[m] THEN other[m] ELSE vc[m]]

\* The flag both comparisons compute for each side (aGreater, vcDominates):
\* a has an entry that b lacks, or a larger one.
Exceeds(a, b) == \E m \in Node : a[m] > b[m]

\* How b stands to a.  Identical clocks are "older".
compareVectorClocks(a, b) ==
  IF Exceeds(a, b) /\ Exceeds(b, a) THEN "concurrent"
  ELSE IF Exceeds(b, a) THEN "newer"
  ELSE "older"

\* The method.  0 stands for "identical" and for "concurrent" alike.
Compare(vc, other) ==
  IF Exceeds(vc, other) /\ ~Exceeds(other, vc) THEN 1
  ELSE IF ~Exceeds(vc, other) /\ Exceeds(other, vc) THEN -1
  ELSE 0

Equals(vc, other) == \A m \in Node : vc[m] = other[m]

IsEmpty(vc) == \A m \in Node : vc[m] = 0

MergeAndIncrement(vc, other, n) == Increment(Merge(vc, other), n)

-----------------------------------------------------------------------------
\* The reference order the comparisons are checked against: b knows every
\* event a knows.
Leq(a, b) == \A m \in Node : a[m] <= b[m]
=============================================================================
