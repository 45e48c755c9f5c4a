----------------------- MODULE ReplicationProperties -----------------------
(* What quorum replication (Replication) is meant to guarantee.              *)
EXTENDS Replication

PutClock(p) == putReq[p].vc

\* Every write the node of place s has confirmed to the coordinator of p.
Confirmed(p) == {PutNode(p, s) : s \in OkSlots(p)}

\* Versions a node, or the coordinator of a read, has in hand.
LiveVersions ==
  {store[n] : n \in Node} \cup {cur[g] : g \in Get}
    \cup UNION {{resp[g][n] : n \in DOMAIN resp[g]} : g \in Get}

\* A replica that has confirmed an acknowledged write goes on knowing it (it
\* or something that supersedes it), across retries, late requests, other
\* writes, and restarts from the snapshot, until a stale read repair
\* overwrites that replica; and at least WriteQuorum places confirmed it.
\* About localPut's comparison, saveData/loadData and Put's count.
AckedWriteHeld ==
  \A p \in Acked :
    /\ Cardinality(OkSlots(p)) >= WriteQuorum
    /\ \A n \in Confirmed(p) \ overwritten : Leq(PutClock(p), store[n].vc)

\* R + W > N at work: as long as no stale repair has overwritten a replica, a
\* read that met its quorum returns a version that knows every write
\* acknowledged before the read began.  About Put's and Get's quorum tests,
\* gatherResponses and resolveConflicts (node.go).
QuorumRead ==
  \A g \in Get :
    getPc[g] = "done" /\ overwritten = {} =>
      \A p \in ackedBefore[g] : Leq(PutClock(p), cur[g].vc)

\* The clock of a version is the least upper bound of the clocks of the
\* writes it holds: it forgets none of them and claims nothing that is not
\* there.  About the merges in localPut and mergeConflicts.
ClockIsJoin ==
  \A sv \in LiveVersions :
    /\ \A p \in Holds(sv) : Leq(PutClock(p), sv.vc)
    /\ \A n \in Node :
         sv.vc[n] # 0 => \E p \in Holds(sv) : PutClock(p)[n] = sv.vc[n]

\* No two writes of one coordinator carry the same counter for it.
FreshCounters ==
  \A p, q \in {r \in Put : Started(r)} :
    p # q /\ putReq[p].at = putReq[q].at
      => PutClock(p)[putReq[p].at] # PutClock(q)[putReq[q].at]

\* Where every write got a counter of its own, no sibling is dropped: a
\* version whose clock covers a write holds that write or one that causally
\* follows it.  About what localPut and mergeConflicts keep as conflicts, and
\* about what the comparison lets them discard.
NoSiblingLost ==
  FreshCounters =>
    \A sv \in LiveVersions : \A p \in {r \in Put : Started(r)} :
      Leq(PutClock(p), sv.vc) =>
        \E q \in Holds(sv) : Leq(PutClock(p), PutClock(q))

\* What a read returns dominates every version it gathered, whatever the
\* order the responses map was walked in.  About resolveConflicts.
ResultCoversResponses ==
  \A g \in Get :
    getPc[g] = "done" =>
      \A n \in DOMAIN resp[g] : Leq(resp[g][n].vc, cur[g].vc)

\* Only a stale read repair takes a replica's clock back: writes, however
\* late or often they are executed, and restarts never do.
ReplicasOnlyAdvance ==
  [][\A n \in Node : n \notin overwritten' => Leq(store[n].vc, store'[n].vc)]_vars

\* A write executed late or again brings nothing back: outside of repairs, a
\* replica takes up only values its clock did not cover yet.
LateWritesAddNothing ==
  [][UNCHANGED repairs =>
       \A n \in Node : \A p \in Holds(store'[n]) \ Holds(store[n]) :
         ~ Leq(PutClock(p), store[n].vc)]_vars

\* Every write that was begun is answered, with success or an error, or its
\* coordinator crashes.
PutsEnd ==
  \A p \in Put :
    putPc[p] = "running" ~> putPc[p] \in {"acked", "failed", "crashed"}

\* The same for reads: the gathering and the resolution come to an end.
GetsEnd ==
  \A g \in Get :
    getPc[g] = "gather" ~> getPc[g] \in {"done", "local", "failed", "crashed"}

-----------------------------------------------------------------------------
(* What the repository says and the code does not do. *)

\* node.go:149 has Put "ensure vector clocks are properly updated": an
\* acknowledged write is held by some replica, or superseded there by a write
\* that knew of it.  Fails: two writes through one coordinator that read the
\* stored clock before either has stored get the same clock, and the second
\* is then ignored as "older" by replicas that answer OK.
AckedWriteKept ==
  \A p \in Acked : \E n \in Node : \E q \in Holds(store[n]) :
    p = q \/ (Leq(PutClock(p), PutClock(q)) /\ PutClock(p) # PutClock(q))

\* config.go:65 calls R + W <= N the unsafe quorum, so R + W > N is to keep
\* acknowledged writes: some replica still knows each of them.  Fails: the
\* read repairs of a read that began before the write was stored overwrite
\* it on every replica they reach.
AckedWriteSurvives ==
  \A p \in Acked : \E n \in Node : Leq(PutClock(p), store[n].vc)

-----------------------------------------------------------------------------
(* The inductive invariant behind AckedWriteHeld, QuorumRead and
   ResultCoversResponses. *)

\* Requests exist before anything is done for them, and repairs are sent only
\* once the result they carry is final.
RequestsOK ==
  /\ \A p \in Put : Started(p) => putReq[p] \in PutRequest
  /\ \A g \in Get : getPc[g] # "idle" => getReq[g] \in GetRequest
  /\ \A w \in writes : Started(w[1])
  /\ \A p \in Put : \A s \in OkSlots(p) : Started(p)
  /\ \A g \in Get : repairs[g] # {} => getPc[g] = "done"

Blank(sv) == sv.val = None => sv.vc = NewVectorClock

\* Snapshots are current, a missing version has no clock, responses are not
\* missing.
VersionsOK ==
  /\ disk = store
  /\ \A n \in Node : Blank(store[n])
  /\ \A g \in Get : Blank(cur[g])
  /\ \A g \in Get : \A n \in DOMAIN resp[g] : resp[g][n].val # None

\* A node whose OK the coordinator has counted knows the write, unless a
\* stale repair has overwritten it since.
ConfirmedIsHeld ==
  /\ \A p \in Put : \A s \in OkSlots(p) :
       PutNode(p, s) \notin overwritten =>
         Leq(PutClock(p), store[PutNode(p, s)].vc)
  /\ \A p \in Acked : Cardinality(OkSlots(p)) >= WriteQuorum

\* What a read has gathered and resolved so far: its responses come from
\* nodes of its list, know the acknowledged writes those nodes had confirmed,
\* and are covered by the result as far as they have been resolved.
ReadOK(g) ==
  /\ ackedBefore[g] \subseteq Acked
  /\ \A n \in DOMAIN resp[g] :
       /\ getPc[g] # "idle"
       /\ \E s \in Slot : n = GetNode(g, s)
       /\ n \notin overwritten =>
            \A p \in ackedBefore[g] :
              n \in Confirmed(p) => Leq(PutClock(p), resp[g][n].vc)
  /\ getPc[g] \in {"resolve", "done"} =>
       /\ Cardinality(DOMAIN resp[g]) >= ReadQuorum
       /\ todo[g] \subseteq DOMAIN resp[g]
       /\ \A n \in DOMAIN resp[g] \ todo[g] : Leq(resp[g][n].vc, cur[g].vc)
  /\ getPc[g] = "done" => todo[g] = {}

ReadsSeeConfirmed == \A g \in Get : ReadOK(g)

Inv == TypeOK /\ RequestsOK /\ VersionsOK /\ ConfirmedIsHeld
         /\ ReadsSeeConfirmed
=============================================================================
