-------------------------- MODULE MCResponsibility --------------------------
(* A cluster with two nodes more than replicas, and one with too few, for    *)
(* TLC.  The nodes other than the coordinator and the primary are alike.     *)
(* Beside it the hash rings of three nodes with two virtual nodes each.      *)
EXTENDS Responsibility

CONSTANTS a, b, c, d, e

Clusters == {{a, b, c, d, e}, {a, b}}

Alike == Permutations({c, d, e})

\* Every way to deal six hashes to three nodes, and a key at, before and after
\* each of them.
Dealt ==
  {[n \in {a, b, c} |-> IF n = a THEN x ELSE IF n = b THEN y ELSE 1..6 \ (x \cup y)] :
     x \in kSubset(2, 1..6), y \in kSubset(2, 1..6)}
Apart == {p \in Dealt : p[a] \cap p[b] = {}}
Hashes == 0..7

\* Any order of the three, and one with a node that lists itself as a peer.
Orders3 == {o \in [1..3 -> {a, b, c}] : IsInjective(o)} \cup {<<b, a, b, c>>}

\* Rings with nobody, one or two in them before another joins.
Before == {<< >>, <<a>>, <<a, b>>, <<c, a>>}
=============================================================================
