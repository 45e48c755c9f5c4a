--------------------------- MODULE MCReplication ---------------------------
(* Instances of Replication for TLC.                                         *)
EXTENDS ReplicationRefinement, TLC

CONSTANTS a, b, c

\* Every walk of the ring comes out with the same replicas, in some order; the
\* order of the places means nothing, so a place is named by its node.
OneList == {[s \in Slot |-> s]}

\* More nodes than replicas, as in the sample cluster: the primary is the same
\* for every coordinator, but each walks the ring's node map from there in an
\* order of its own.
TwoLists == {<<a, b>>, <<a, c>>}

Writes == Permutations(Put)

\* Nodes that are, or are not, places of the list may be exchanged.
Interchangeable ==
  Permutations(Slot) \cup Permutations(Node \ Slot)
    \cup Permutations(Put) \cup Permutations(Get)
=============================================================================
