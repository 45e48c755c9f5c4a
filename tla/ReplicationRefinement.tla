------------------------ MODULE ReplicationRefinement ------------------------
(* Replication implements QuorumStore.                                       *)
EXTENDS ReplicationProperties

\* A read gathers and resolves before it ends.
ReadState(g) == IF getPc[g] \in {"gather", "resolve"} THEN "running" ELSE getPc[g]

\* The writes the answer of a read should know and does not.
Missing(g) ==
  IF getPc[g] \in {"done", "local"}
  THEN {p \in ackedBefore[g] : ~ Leq(PutClock(p), cur[g].vc)} ELSE {}

Reading == [g \in Get |-> ReadState(g)]
Missed == [g \in Get |-> Missing(g)]
Struck == overwritten # {}

Promise ==
  INSTANCE QuorumStore WITH
    write <- putPc, read <- Reading, before <- ackedBefore,
    missing <- Missed, struck <- Struck

\* Whatever the replicas and messages do, the client sees a store that keeps
\* QuorumStore's promises: every step of quorum replication is one of its
\* steps or changes nothing a client could tell.  About Put and Get as wholes.
KeepsPromise == Promise!Spec
=============================================================================
