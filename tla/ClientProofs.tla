---------------------------- MODULE ClientProofs ----------------------------
(* What clients get of a replicated key, for any nodes, requests, lists,     *)
(* retries and restarts: what the clock of a version says of the writes it   *)
(* holds, and that quorum replication implements QuorumStore.                *)
EXTENDS ReplicationRefinement, ReplicationProofs

Begun == {p \in Put : Started(p)}

\* Every version in hand anywhere, and every write as it was sent.
ClocksOK ==
  /\ \A n \in Node : Reflects(store[n], putReq, Begun)
  /\ \A g \in Get : Reflects(cur[g], putReq, Begun)
  /\ \A g \in Get : \A n \in DOMAIN resp[g] : Reflects(resp[g][n], putReq, Begun)
  /\ \A p \in Begun : Reflects(Written(p, putReq[p].vc), putReq, Begun)
  /\ \A p \in Begun : putReq[p].vc[putReq[p].at] # 0

CInv == Inv /\ ClocksOK

-----------------------------------------------------------------------------
(* The steps *)

LEMMA BegunRequests ==
  ASSUME Inv
  PROVE  Requests(putReq, Begun)
  BY DEF Inv, RequestsOK, Begun, PutRequest, Requests

LEMMA ClocksInit == Init => CInv
<1> SUFFICES ASSUME Init PROVE ClocksOK
  BY InitInv DEF CInv
<1>1. Reflects(Absent, putReq, Begun) /\ Begun = {}
  BY InitInv, BegunRequests, AbsentReflects DEF Init, Begun, Started
<1> QED BY <1>1 DEF Init, ClocksOK

\* A step that begins no write, and whose new versions reflect the writes.
LEMMA ClocksStay ==
  ASSUME CInv, StepFacts, Begun' = Begun,
         \A n \in Node : Reflects(store'[n], putReq, Begun),
         \A g \in Get : Reflects(cur'[g], putReq, Begun),
         \A g \in Get : \A n \in DOMAIN resp'[g] : Reflects(resp'[g][n], putReq, Begun)
  PROVE  ClocksOK'
<1>1. \A p \in Begun : putReq'[p] = putReq[p]
  BY DEF StepFacts, Begun
<1>2. ASSUME NEW sv, Reflects(sv, putReq, Begun)
      PROVE  Reflects(sv, putReq', Begun')
  BY <1>1, <1>2 DEF Reflects, JoinOf, Counts, Fresh, Follows
<1> QED BY <1>1, <1>2 DEF CInv, ClocksOK

LEMMA PutStartClocks ==
  ASSUME CInv, NEW p \in Put, NEW n \in Node, NEW to \in NodeLists,
         PutStart(p, n, to), StepFacts
  PROVE  ClocksOK'
<1>1. p \notin Begun /\ Begun' = Begun \cup {p}
  BY DEF PutStart, Begun, Started, CInv, Inv, TypeOK
<1>2. /\ putReq'[p].at = n /\ putReq'[p].vc = Increment(store[n].vc, n)
      /\ UNCHANGED <<store, cur, resp>>
  BY DEF PutStart, updateLocalVectorClock, nodeVars, getVars, CInv, Inv, TypeOK
<1>3. \A w \in Begun : putReq'[w] = putReq[w]
  BY DEF StepFacts, Begun
<1>4. Requests(putReq, Begun) /\ store[n] \in Version /\ store[n].vc \in Clock
  BY BegunRequests DEF CInv, Inv, TypeOK, Version
<1>5. /\ \A x \in Version : Reflects(x, putReq, Begun) => Reflects(x, putReq', Begun')
      /\ \A w \in Begun' : Reflects(Written(w, putReq'[w].vc), putReq', Begun')
  BY <1>1, <1>2, <1>3, <1>4, NewWriteReflects DEF CInv, ClocksOK
<1>6. putReq'[p].vc[n] # 0
  BY <1>2, <1>4 DEF Increment, Clock
<1>7. \A w \in Begun' : putReq'[w].vc[putReq'[w].at] # 0
  BY <1>1, <1>2, <1>3, <1>6 DEF CInv, ClocksOK
<1>8. /\ \A m \in Node : store[m] \in Version
      /\ \A g \in Get : cur[g] \in Version
      /\ \A g \in Get : \A m \in DOMAIN resp[g] : resp[g][m] \in Version
  BY DEF CInv, Inv, TypeOK
<1> QED BY <1>2, <1>5, <1>7, <1>8 DEF CInv, ClocksOK

\* localPut at a node, for a write that has begun.
LEMMA SavedClocks ==
  ASSUME CInv, StepFacts, NEW n \in Node, NEW p \in Begun,
         Save(n, localPut(store[n], p, putReq[p].vc)),
         UNCHANGED <<putPc, putReq, getVars>>
  PROVE  /\ ClocksOK'
         /\ \A m \in Node : \A q \in Holds(store'[m]) \ Holds(store[m]) :
              ~Leq(PutClock(q), store[m].vc)
<1> DEFINE new == localPut(store[n], p, putReq[p].vc)
<1>1. /\ store[n] \in Version /\ store[n].vc \in Clock
      /\ Reflects(store[n], putReq, Begun) /\ Blank(store[n])
  BY DEF CInv, Inv, TypeOK, VersionsOK, ClocksOK, Version
<1>2. /\ Requests(putReq, Begun)
      /\ putReq[p].at \in Node /\ putReq[p].vc \in Clock
      /\ Reflects(Written(p, putReq[p].vc), putReq, Begun)
  BY BegunRequests DEF CInv, ClocksOK, Requests
<1>3. /\ Reflects(new, putReq, Begun)
      /\ \A q \in Holds(new) \ Holds(store[n]) :
           q = p /\ (store[n].val = None \/ ~Leq(putReq[p].vc, store[n].vc))
  BY <1>1, <1>2, LocalPutReflects
<1> HIDE DEF new
<1>4. store' = [store EXCEPT ![n] = new]
  BY DEF Save, new
<1>5. \A m \in Node : store'[m] = IF m = n THEN new ELSE store[m]
  BY <1>4 DEF CInv, Inv, TypeOK
<1>6. ClocksOK'
  BY <1>3, <1>5, ClocksStay DEF getVars, Begun, Started, CInv, ClocksOK
<1>7. store[n].val = None => ~Leq(putReq[p].vc, store[n].vc)
  <2>1. PICK m \in Node : putReq[p].vc[m] # 0
    BY <1>2 DEF CInv, ClocksOK
  <2>2. putReq[p].vc[m] \in Nat
    BY <1>2 DEF Clock
  <2>3. store[n].val = None => store[n].vc[m] = 0
    BY <1>1 DEF Blank, NewVectorClock
  <2> QED BY <2>1, <2>2, <2>3 DEF Leq
<1>8. \A m \in Node : \A q \in Holds(store'[m]) \ Holds(store[m]) :
        ~Leq(PutClock(q), store[m].vc)
  BY <1>3, <1>5, <1>7 DEF PutClock
<1> QED BY <1>6, <1>8

LEMMA WriteHereClocks ==
  ASSUME CInv, StepFacts, NEW p \in Put, NEW s \in Slot, WriteHere(p, s)
  PROVE  /\ ClocksOK'
         /\ \A m \in Node : \A q \in Holds(store'[m]) \ Holds(store[m]) :
              ~Leq(PutClock(q), store[m].vc)
<1>1. p \in Begun
  BY DEF WriteHere, Begun, Started
<1>2. putReq[p].at \in Node
  BY <1>1, BegunRequests DEF Requests, CInv
<1> QED BY <1>1, <1>2, SavedClocks DEF WriteHere

LEMMA DeliverWriteClocks ==
  ASSUME CInv, StepFacts, NEW p \in Put, NEW s \in Slot, NEW k \in 1..MaxAttempts,
         DeliverWrite(p, s, k)
  PROVE  /\ ClocksOK'
         /\ \A m \in Node : \A q \in Holds(store'[m]) \ Holds(store[m]) :
              ~Leq(PutClock(q), store[m].vc)
<1> DEFINE n == PutNode(p, s)
<1>1. p \in Begun
  BY DEF DeliverWrite, Begun, CInv, Inv, RequestsOK
<1>2. putReq[p] \in PutRequest /\ ~IsEmpty(putReq[p].vc)
  <2>1. putReq[p] \in PutRequest
    BY <1>1 DEF Begun, CInv, Inv, RequestsOK
  <2> QED BY <1>1, <2>1 DEF PutRequest, CInv, ClocksOK, IsEmpty
<1>3. n \in Node
  BY <1>2, ListsOfNodes DEF PutRequest, PutNode
<1>4. applyReplicaWrite(n, store[n], Written(p, putReq[p].vc), FALSE)
        = localPut(store[n], p, putReq[p].vc)
  BY <1>2 DEF applyReplicaWrite, Written
<1> QED BY <1>1, <1>3, <1>4, SavedClocks DEF DeliverWrite

\* A step that makes no version.
LEMMA SameVersions ==
  ASSUME CInv, StepFacts, UNCHANGED <<store, cur, resp>>, Begun' = Begun
  PROVE  ClocksOK'
  BY ClocksStay DEF CInv, ClocksOK

LEMMA ReadValueClocks ==
  ASSUME CInv, StepFacts, NEW g \in Get, NEW s \in Slot, ReadValue(g, s)
  PROVE  ClocksOK'
<1> DEFINE n == GetNode(g, s)
<1>1. n \in Node
  <2>1. getReq[g] \in GetRequest
    BY DEF ReadValue, CInv, Inv, RequestsOK
  <2> QED BY <2>1, ListsOfNodes DEF GetRequest, GetNode
<1>2. /\ resp' = [resp EXCEPT ![g] = WithResponse(resp[g], n, store[n])]
      /\ UNCHANGED <<store, cur, putPc, putReq>>
  BY DEF ReadValue, nodeVars, putVars
<1>3. \A h \in Get : h # g => resp'[h] = resp[h]
  BY <1>2 DEF CInv, Inv, TypeOK
<1>4. resp'[g] = WithResponse(resp[g], n, store[n])
  BY <1>2 DEF CInv, Inv, TypeOK
<1>5. \A m \in DOMAIN resp'[g] :
        resp'[g][m] = store[n] \/ (m \in DOMAIN resp[g] /\ resp'[g][m] = resp[g][m])
  BY <1>4 DEF WithResponse
<1>6. \A h \in Get : \A m \in DOMAIN resp'[h] : Reflects(resp'[h][m], putReq, Begun)
  BY <1>1, <1>3, <1>5 DEF CInv, ClocksOK
<1>7. Begun' = Begun
  BY <1>2 DEF Begun, Started
<1> QED BY <1>2, <1>6, <1>7, ClocksStay DEF CInv, ClocksOK

\* The result of a read becomes a version that reflects the writes.
LEMMA ResultClocks ==
  ASSUME CInv, StepFacts, NEW g \in Get, NEW sv, Reflects(sv, putReq, Begun),
         cur' = [cur EXCEPT ![g] = sv], UNCHANGED <<store, resp, putPc>>
  PROVE  ClocksOK'
<1>1. \A h \in Get : cur'[h] = IF h = g THEN sv ELSE cur[h]
  BY DEF CInv, Inv, TypeOK
<1>2. Begun' = Begun
  BY DEF Begun, Started
<1> QED BY <1>1, <1>2, ClocksStay DEF CInv, ClocksOK

LEMMA ReadQuorumMissedClocks ==
  ASSUME CInv, StepFacts, NEW g \in Get, ReadQuorumMissed(g)
  PROVE  ClocksOK'
<1>1. getReq[g].at \in Node
  BY DEF ReadQuorumMissed, CInv, Inv, RequestsOK, GetRequest
<1>2. UNCHANGED <<store, resp, putPc>>
  BY DEF ReadQuorumMissed, nodeVars, putVars
<1>3. CASE cur' = [cur EXCEPT ![g] = store[getReq[g].at]]
  BY <1>1, <1>2, <1>3, ResultClocks DEF CInv, ClocksOK
<1>4. CASE UNCHANGED cur
  BY <1>2, <1>4, SameVersions DEF Begun, Started
<1> QED BY <1>3, <1>4 DEF ReadQuorumMissed

LEMMA ResolveResponseClocks ==
  ASSUME CInv, StepFacts, NEW g \in Get, NEW n \in Node, ResolveResponse(g, n)
  PROVE  ClocksOK'
<1>1. PICK sv \in Resolved(cur[g], resp[g][n]) : cur' = [cur EXCEPT ![g] = sv]
  BY DEF ResolveResponse
<1>2. n \in DOMAIN resp[g]
  BY DEF ResolveResponse, CInv, Inv, ReadsSeeConfirmed, ReadOK
<1>3. /\ cur[g] \in Version /\ resp[g][n] \in Version /\ resp[g][n].val # None
      /\ Reflects(cur[g], putReq, Begun) /\ Reflects(resp[g][n], putReq, Begun)
  BY <1>2 DEF CInv, Inv, TypeOK, VersionsOK, ClocksOK
<1>4. Requests(putReq, Begun)
  BY BegunRequests DEF CInv
<1>5. Reflects(sv, putReq, Begun)
  BY <1>3, <1>4, ResolvedReflects
<1>6. UNCHANGED <<store, resp, putPc>>
  BY DEF ResolveResponse, nodeVars, putVars
<1> QED BY <1>1, <1>5, <1>6, ResultClocks

LEMMA DeliverRepairClocks ==
  ASSUME CInv, StepFacts, NEW g \in Get, NEW s \in Slot, DeliverRepair(g, s)
  PROVE  ClocksOK'
<1>1. store' = [store EXCEPT ![GetNode(g, s)] = cur[g]]
      /\ UNCHANGED <<cur, resp, putPc>>
  BY DEF DeliverRepair, Save, storeReplicaValue, putVars
<1>2. \A n \in Node : store'[n] \in {store[n], cur[g]}
  BY <1>1 DEF CInv, Inv, TypeOK
<1>3. Begun' = Begun
  BY <1>1 DEF Begun, Started
<1> QED BY <1>1, <1>2, <1>3, ClocksStay DEF CInv, ClocksOK

LEMMA RestartClocks ==
  ASSUME CInv, StepFacts, NEW n \in MayRestart, Restart(n)
  PROVE  ClocksOK' /\ store' = store
<1>1. store' = store /\ UNCHANGED <<cur, resp>>
  BY RestartTypes DEF Restart, CInv
<1>2. Begun' = Begun
  BY DEF Restart, Begun, Started, CInv, Inv, TypeOK
<1> QED BY <1>1, <1>2, SameVersions

\* What LateWritesAddNothing says of a step.
AddsNothing ==
  UNCHANGED repairs =>
    \A n \in Node : \A p \in Holds(store'[n]) \ Holds(store[n]) :
      ~ Leq(PutClock(p), store[n].vc)

LEMMA PutStepClocks ==
  ASSUME CInv, StepFacts, NEW p \in Put, PutStep(p)
  PROVE  ClocksOK' /\ AddsNothing
<1>1. ASSUME NEW n \in Node, NEW to \in NodeLists, PutStart(p, n, to)
      PROVE  ClocksOK' /\ AddsNothing
  BY <1>1, PutStartClocks DEF PutStart, nodeVars, AddsNothing
<1>2. ASSUME NEW s \in Slot, WriteHere(p, s)
      PROVE  ClocksOK' /\ AddsNothing
  BY <1>2, WriteHereClocks DEF AddsNothing
<1>3. ASSUME NEW s \in Slot, NEW k \in 1..MaxAttempts, DeliverWrite(p, s, k)
      PROVE  ClocksOK' /\ AddsNothing
  BY <1>3, DeliverWriteClocks DEF AddsNothing
<1>4. ASSUME NEW s \in Slot, WriteAttemptFails(p, s)
      PROVE  ClocksOK' /\ AddsNothing
  <2>1. Begun' = Begun /\ UNCHANGED <<store, cur, resp>>
    BY <1>4 DEF WriteAttemptFails, nodeVars, getVars, Begun, Started
  <2> QED BY <2>1, SameVersions DEF AddsNothing
<1>5. CASE PutReturn(p)
  <2>1. Begun' = Begun /\ UNCHANGED <<store, cur, resp>>
    BY <1>5 DEF PutReturn, nodeVars, getVars, Begun, Started, CInv, Inv, TypeOK
  <2> QED BY <2>1, SameVersions DEF AddsNothing
<1> QED BY <1>1, <1>2, <1>3, <1>4, <1>5 DEF PutStep

LEMMA GetStepClocks ==
  ASSUME CInv, StepFacts, NEW g \in Get, GetStep(g)
  PROVE  ClocksOK' /\ AddsNothing
<1>1. ASSUME NEW s \in Slot, DeliverRepair(g, s)
      PROVE  ClocksOK' /\ AddsNothing
  <2>1. repairs' # repairs
    BY <1>1 DEF DeliverRepair, CInv, Inv, TypeOK
  <2> QED BY <1>1, <2>1, DeliverRepairClocks DEF AddsNothing
<1>2. ASSUME NEW n \in Node, ResolveResponse(g, n)
      PROVE  ClocksOK' /\ AddsNothing
  BY <1>2, ResolveResponseClocks DEF ResolveResponse, nodeVars, AddsNothing
<1>3. CASE ReadQuorumMissed(g)
  BY <1>3, ReadQuorumMissedClocks DEF ReadQuorumMissed, nodeVars, AddsNothing
<1>4. ASSUME NEW s \in Slot, ReadValue(g, s)
      PROVE  ClocksOK' /\ AddsNothing
  BY <1>4, ReadValueClocks DEF ReadValue, nodeVars, AddsNothing
<1>5. CASE \/ \E n \in Node, to \in NodeLists : GetStart(g, n, to)
           \/ \E s \in Slot : ReadNothing(g, s)
           \/ ReadQuorumMet(g) \/ GetReturn(g)
  <2>1. UNCHANGED <<store, cur, resp, putPc>>
    BY <1>5 DEF GetStart, ReadNothing, ReadQuorumMet, GetReturn, nodeVars, putVars
  <2> QED BY <2>1, SameVersions DEF Begun, Started, AddsNothing
<1> QED BY <1>1, <1>2, <1>3, <1>4, <1>5 DEF GetStep

LEMMA NextClocks ==
  ASSUME CInv, [Next]_vars
  PROVE  CInv' /\ AddsNothing
<1>1. Inv' /\ StepFacts
  BY NextInv DEF CInv
<1>2. ASSUME NEW n \in MayRestart, Restart(n)
      PROVE  ClocksOK' /\ AddsNothing
  BY <1>1, <1>2, RestartClocks DEF AddsNothing
<1>3. ASSUME UNCHANGED vars
      PROVE  ClocksOK' /\ AddsNothing
  BY <1>1, <1>3, SameVersions DEF vars, nodeVars, putVars, getVars, Begun, Started,
     AddsNothing
<1>4. ClocksOK' /\ AddsNothing
  BY <1>1, <1>2, <1>3, PutStepClocks, GetStepClocks DEF Next
<1> QED BY <1>1, <1>4 DEF CInv

LEMMA ClockInvariance == Spec => []CInv
<1>1. CInv /\ [Next]_vars => CInv'
  BY NextClocks
<1> QED BY <1>1, ClocksInit, PTL DEF Spec

\* The clock of every version in hand anywhere is exactly the join of the
\* writes it holds: about the merges in localPut and mergeConflicts, for any
\* number of concurrent writes.
THEOREM ClocksAreJoins == Spec => []ClockIsJoin
<1>1. CInv => ClockIsJoin
  BY DEF CInv, ClocksOK, Reflects, JoinOf, ClockIsJoin, LiveVersions, PutClock
<1> QED BY <1>1, ClockInvariance, PTL

\* While coordinators give no count twice, no version drops a sibling: where
\* its clock covers a write it holds that write or one that knew of it.  About
\* what localPut and mergeConflicts keep as conflicts and what the comparison
\* lets them discard, beside retries, stale repairs and restarts.
THEOREM SiblingsAreKept == Spec => []NoSiblingLost
<1>1. CInv => NoSiblingLost
  <2> SUFFICES ASSUME CInv, FreshCounters, NEW sv \in LiveVersions, NEW p \in Begun,
                      Leq(PutClock(p), sv.vc)
               PROVE  \E q \in Holds(sv) : Leq(PutClock(p), PutClock(q))
    BY DEF NoSiblingLost, Begun
  <2>1. Fresh(putReq, Begun)
    BY DEF FreshCounters, Fresh, Begun, PutClock
  <2>2. Reflects(sv, putReq, Begun)
    BY DEF CInv, ClocksOK, LiveVersions
  <2>3. putReq[p].at \in Node /\ putReq[p].vc[putReq[p].at] # 0
    BY BegunRequests DEF CInv, ClocksOK, Requests
  <2> QED BY <2>1, <2>2, <2>3 DEF Reflects, Follows, Leq, PutClock
<1> QED BY <1>1, ClockInvariance, PTL

\* No write that is executed late, or again, brings back what the replica has
\* already superseded: about the comparison in localPut.
THEOREM LateWritesAreHarmless == Spec => LateWritesAddNothing
<1>1. CInv /\ [Next]_vars =>
        [UNCHANGED repairs =>
           \A n \in Node : \A p \in Holds(store'[n]) \ Holds(store[n]) :
             ~ Leq(PutClock(p), store[n].vc)]_vars
  BY NextClocks DEF AddsNothing
<1> QED BY <1>1, ClockInvariance, PTL DEF Spec, LateWritesAddNothing

-----------------------------------------------------------------------------
(* The store a client sees *)

\* What an answer misses does not change while the read, its result and the
\* clocks of acknowledged writes stay as they are.
LEMMA MissingStays ==
  ASSUME Inv, NEW g \in Get,
         getPc'[g] = getPc[g], ackedBefore'[g] = ackedBefore[g],
         cur'[g] = cur[g], \A p \in Acked : putReq'[p] = putReq[p]
  PROVE  Missing(g)' = Missing(g)
<1>1. ackedBefore[g] \subseteq Acked
  BY DEF Inv, ReadsSeeConfirmed, ReadOK
<1>2. \A p \in ackedBefore[g] : PutClock(p)' = PutClock(p)
  BY <1>1 DEF PutClock
<1> QED BY <1>2 DEF Missing

\* A step that leaves the client's view alone.
LEMMA Quiet ==
  ASSUME UNCHANGED <<putPc, putReq, getPc, ackedBefore, cur, overwritten>>
  PROVE  UNCHANGED Promise!promised
<1>1. UNCHANGED Reading
  BY DEF Reading, ReadState
<1>2. UNCHANGED Missed
  BY DEF Missed, Missing, PutClock
<1>3. UNCHANGED Struck
  BY DEF Struck
<1> QED BY <1>1, <1>2, <1>3 DEF Promise!promised

-----------------------------------------------------------------------------
(* Writes *)

LEMMA PutStartBegins ==
  ASSUME Inv, NEW p \in Put, NEW n \in Node, NEW to \in NodeLists,
         PutStart(p, n, to)
  PROVE  Promise!BeginWrite(p)
<1> USE DEF PutStart, getVars, history
<1>1. p \notin Acked
  BY DEF Acked
<1>2. \A q \in Acked : putReq'[q] = putReq[q]
  BY <1>1 DEF Inv, TypeOK, Acked
<1>3. UNCHANGED Missed
  BY <1>2, MissingStays DEF Missed
<1>4. UNCHANGED Reading /\ UNCHANGED Struck
  BY DEF Reading, ReadState, Struck
<1> QED BY <1>3, <1>4 DEF Promise!BeginWrite, Promise!WriteGoes

LEMMA PutReturnEnds ==
  ASSUME Inv, NEW p \in Put, PutReturn(p)
  PROVE  Promise!EndWrite(p)
<1> USE DEF PutReturn, getVars, history
<1>1. UNCHANGED Missed
  BY DEF Missed, Missing, PutClock
<1>2. UNCHANGED Reading /\ UNCHANGED Struck
  BY DEF Reading, ReadState, Struck
<1> QED BY <1>1, <1>2 DEF Promise!EndWrite, Promise!WriteGoes

LEMMA PutStepPromised ==
  ASSUME Inv, NEW p \in Put, PutStep(p)
  PROVE  Promise!Next \/ UNCHANGED Promise!promised
<1>1. ASSUME NEW n \in Node, NEW to \in NodeLists, PutStart(p, n, to)
      PROVE  Promise!Next
  BY <1>1, PutStartBegins DEF Promise!Next
<1>2. ASSUME NEW s \in Slot, WriteHere(p, s) \/ WriteAttemptFails(p, s)
      PROVE  UNCHANGED Promise!promised
  BY <1>2, Quiet DEF WriteHere, WriteAttemptFails, getVars, history
<1>3. ASSUME NEW s \in Slot, NEW k \in 1..MaxAttempts, DeliverWrite(p, s, k)
      PROVE  UNCHANGED Promise!promised
  BY <1>3, Quiet DEF DeliverWrite, getVars, history
<1>4. ASSUME PutReturn(p) PROVE Promise!Next
  BY <1>4, PutReturnEnds DEF Promise!Next
<1> QED BY <1>1, <1>2, <1>3, <1>4 DEF PutStep

-----------------------------------------------------------------------------
(* Reads *)

LEMMA GetStartBegins ==
  ASSUME Inv, NEW g \in Get, NEW n \in Node, NEW to \in NodeLists,
         GetStart(g, n, to)
  PROVE  Promise!BeginRead(g)
<1> USE DEF GetStart, putVars
<1>1. ReadState(g) = "idle" /\ ReadState(g)' = "running"
  BY DEF ReadState, Inv, TypeOK
<1>2. \A h \in Get \ {g} : ReadState(h)' = ReadState(h)
  BY DEF ReadState, Inv, TypeOK
<1>3. Reading[g] = "idle" /\ Reading' = [Reading EXCEPT ![g] = "running"]
  BY <1>1, <1>2 DEF Reading
<1>4. Missing(g) = {} /\ Missing(g)' = {}
  BY DEF Missing, Inv, TypeOK
<1>5. \A h \in Get \ {g} : Missing(h)' = Missing(h)
  <2> SUFFICES ASSUME NEW h \in Get \ {g} PROVE Missing(h)' = Missing(h)
    OBVIOUS
  <2>1. /\ getPc'[h] = getPc[h] /\ ackedBefore'[h] = ackedBefore[h]
        /\ cur'[h] = cur[h]
    BY DEF Inv, TypeOK
  <2> QED BY <2>1, MissingStays
<1>6. UNCHANGED Missed
  BY <1>4, <1>5 DEF Missed
<1>7. UNCHANGED Struck
  BY DEF Struck
<1> QED BY <1>3, <1>6, <1>7 DEF Promise!BeginRead, Promise!Acknowledged, Acked

\* A read that goes on, or resolves one more response.
LEMMA ReadGoesOn ==
  ASSUME Inv, NEW g \in Get,
         \/ ReadQuorumMet(g)
         \/ \E n \in Node : ResolveResponse(g, n)
  PROVE  UNCHANGED Promise!promised
<1> USE DEF ReadQuorumMet, ResolveResponse, putVars, history
<1>1. /\ getPc[g] \in {"gather", "resolve"}
      /\ getPc'[g] = "resolve"
  BY DEF Inv, TypeOK
<1>2. \A h \in Get \ {g} : getPc'[h] = getPc[h] /\ cur'[h] = cur[h]
  BY DEF Inv, TypeOK
<1>3. UNCHANGED Reading
  BY <1>1, <1>2 DEF Reading, ReadState
<1>4. UNCHANGED <<putPc, putReq, ackedBefore, overwritten>>
  OBVIOUS
<1>5. \A h \in Get : Missing(h)' = Missing(h)
  BY <1>1, <1>2, <1>4 DEF Missing, PutClock
<1>6. UNCHANGED Missed /\ UNCHANGED Struck
  BY <1>4, <1>5 DEF Missed, Struck
<1> QED BY <1>3, <1>4, <1>6 DEF Promise!promised

\* A read that ends: what changes for a client is its own state and answer.
LEMMA ReadEnds ==
  ASSUME Inv, NEW g \in Get, NEW kind \in {"done", "local", "failed"},
         getPc[g] \in {"gather", "resolve"},
         getPc' = [getPc EXCEPT ![g] = kind],
         \A h \in Get \ {g} : cur'[h] = cur[h],
         UNCHANGED <<putPc, putReq, ackedBefore, overwritten>>
  PROVE  /\ Reading[g] = "running"
         /\ Reading' = [Reading EXCEPT ![g] = kind]
         /\ Missed' = [Missed EXCEPT ![g] = Missing(g)']
         /\ Missing(g)' \subseteq ackedBefore[g]
         /\ UNCHANGED Struck
<1>1. getPc'[g] = kind /\ \A h \in Get \ {g} : getPc'[h] = getPc[h]
  BY DEF Inv, TypeOK
<1>2. ReadState(g) = "running" /\ ReadState(g)' = kind
  BY <1>1 DEF ReadState
<1>3. \A h \in Get \ {g} : ReadState(h)' = ReadState(h)
  BY <1>1 DEF ReadState
<1>4. \A h \in Get \ {g} : Missing(h)' = Missing(h)
  BY <1>1 DEF Missing, PutClock
<1>5. Missing(g)' \subseteq ackedBefore[g]
  BY DEF Missing
<1> QED BY <1>2, <1>3, <1>4, <1>5 DEF Reading, Missed, Struck

LEMMA ReadQuorumMissedEnds ==
  ASSUME Inv, NEW g \in Get, ReadQuorumMissed(g)
  PROVE  Promise!Answer(g) \/ Promise!FailRead(g)
<1> USE DEF ReadQuorumMissed, putVars, history
<1>1. CASE getPc' = [getPc EXCEPT ![g] = "local"]
  <2>1. \A h \in Get \ {g} : cur'[h] = cur[h]
    BY DEF Inv, TypeOK
  <2>2. /\ Reading[g] = "running"
        /\ Reading' = [Reading EXCEPT ![g] = "local"]
        /\ Missed' = [Missed EXCEPT ![g] = Missing(g)']
        /\ Missing(g)' \in SUBSET ackedBefore[g]
        /\ UNCHANGED Struck
    BY <1>1, <2>1, ReadEnds
  <2>3. Promise!Answer(g)
    BY <2>2 DEF Promise!Answer
  <2> QED BY <2>3
<1>2. CASE getPc' = [getPc EXCEPT ![g] = "failed"] /\ UNCHANGED cur
  <2>1. /\ Reading[g] = "running"
        /\ Reading' = [Reading EXCEPT ![g] = "failed"]
        /\ Missed' = [Missed EXCEPT ![g] = Missing(g)']
        /\ UNCHANGED Struck
    BY <1>2, ReadEnds
  <2>2. Missing(g) = {} /\ Missing(g)' = {}
    BY <1>2 DEF Missing, Inv, TypeOK
  <2>3. UNCHANGED Missed
    BY <2>1, <2>2 DEF Missed
  <2> QED BY <2>1, <2>3 DEF Promise!FailRead
<1> QED BY <1>1, <1>2

LEMMA GetReturnAnswers ==
  ASSUME Inv, QuorumRead', NEW g \in Get, GetReturn(g)
  PROVE  Promise!Answer(g)
<1> USE DEF GetReturn, putVars, history
<1>1. /\ Reading[g] = "running"
      /\ Reading' = [Reading EXCEPT ![g] = "done"]
      /\ Missed' = [Missed EXCEPT ![g] = Missing(g)']
      /\ Missing(g)' \in SUBSET ackedBefore[g]
      /\ UNCHANGED Struck
  BY ReadEnds
<1>2. getPc'[g] = "done"
  BY DEF Inv, TypeOK
<1>3. ~ Struck => Missing(g)' = {}
  BY <1>1, <1>2 DEF QuorumRead, Missing, Struck
<1> QED BY <1>1, <1>3 DEF Promise!Answer

LEMMA DeliverRepairStrikes ==
  ASSUME Inv, NEW g \in Get, NEW s \in Slot, DeliverRepair(g, s)
  PROVE  Promise!Strike \/ UNCHANGED Promise!promised
<1> USE DEF DeliverRepair, putVars
<1>1. UNCHANGED Reading /\ UNCHANGED Missed
  BY DEF Reading, ReadState, Missed, Missing, PutClock
<1>2. CASE overwritten' = overwritten
  BY <1>2, Quiet
<1>3. CASE overwritten' = overwritten \cup {GetNode(g, s)}
  <2>1. Struck' = TRUE
    BY <1>3 DEF Struck
  <2> QED BY <1>1, <2>1 DEF Promise!Strike
<1> QED BY <1>2, <1>3

LEMMA GetStepPromised ==
  ASSUME Inv, QuorumRead', NEW g \in Get, GetStep(g)
  PROVE  Promise!Next \/ UNCHANGED Promise!promised
<1>1. ASSUME NEW n \in Node, NEW to \in NodeLists, GetStart(g, n, to)
      PROVE  Promise!Next
  BY <1>1, GetStartBegins DEF Promise!Next
<1>2. ASSUME NEW s \in Slot, ReadValue(g, s) \/ ReadNothing(g, s)
      PROVE  UNCHANGED Promise!promised
  BY <1>2, Quiet DEF ReadValue, ReadNothing, putVars, history
<1>3. ASSUME ReadQuorumMet(g) \/ \E n \in Node : ResolveResponse(g, n)
      PROVE  UNCHANGED Promise!promised
  BY <1>3, ReadGoesOn
<1>4. ASSUME ReadQuorumMissed(g) PROVE Promise!Next
  BY <1>4, ReadQuorumMissedEnds DEF Promise!Next
<1>5. ASSUME GetReturn(g) PROVE Promise!Next
  BY <1>5, GetReturnAnswers DEF Promise!Next
<1>6. ASSUME NEW s \in Slot, DeliverRepair(g, s)
      PROVE  Promise!Next \/ UNCHANGED Promise!promised
  BY <1>6, DeliverRepairStrikes DEF Promise!Next
<1> QED BY <1>1, <1>2, <1>3, <1>4, <1>5, <1>6 DEF GetStep

-----------------------------------------------------------------------------
LEMMA RestartCrashes ==
  ASSUME Inv, NEW n \in Node, Restart(n)
  PROVE  Promise!Crash
<1> USE DEF Restart, history
<1> DEFINE ps == {p \in Put : putPc[p] = "running" /\ putReq[p].at = n}
           gs == {g \in Get : getPc[g] \in {"gather", "resolve"} /\ getReq[g].at = n}
<1>1. /\ ps \in SUBSET {p \in Put : putPc[p] = "running"}
      /\ putPc' = [p \in Put |-> IF p \in ps THEN "crashed" ELSE putPc[p]]
  OBVIOUS
<1>2. \A g \in Get : getPc'[g] = IF g \in gs THEN "crashed" ELSE getPc[g]
  OBVIOUS
<1>3. \A g \in Get : ReadState(g)' = IF g \in gs THEN "crashed" ELSE ReadState(g)
  BY <1>2 DEF ReadState
<1>4. gs \in SUBSET {g \in Get : Reading[g] = "running"}
  BY DEF Reading, ReadState
<1>5. Reading' = [g \in Get |-> IF g \in gs THEN "crashed" ELSE Reading[g]]
  BY <1>3 DEF Reading
<1>6. \A g \in Get : Missing(g)' = Missing(g)
  BY <1>2 DEF Missing, PutClock
<1>7. UNCHANGED Missed /\ UNCHANGED Struck
  BY <1>6 DEF Missed, Struck
<1> HIDE DEF ps, gs
<1> QED BY <1>1, <1>4, <1>5, <1>7 DEF Promise!Crash

LEMMA InitPromised == Init => Promise!Init
<1> SUFFICES ASSUME Init PROVE Promise!Init
  OBVIOUS
<1> USE DEF Init
<1>1. Reading = [g \in Get |-> "idle"]
  BY DEF Reading, ReadState
<1>2. Missed = [g \in Get |-> {}]
  BY DEF Missed, Missing
<1>3. Struck = FALSE
  BY DEF Struck
<1> QED BY <1>1, <1>2, <1>3 DEF Promise!Init

LEMMA StepPromised ==
  ASSUME Inv, QuorumRead', [Next]_vars
  PROVE  [Promise!Next]_(Promise!promised)
<1>1. ASSUME NEW p \in Put, PutStep(p)
      PROVE  Promise!Next \/ UNCHANGED Promise!promised
  BY <1>1, PutStepPromised
<1>2. ASSUME NEW g \in Get, GetStep(g)
      PROVE  Promise!Next \/ UNCHANGED Promise!promised
  BY <1>2, GetStepPromised
<1>3. ASSUME NEW n \in MayRestart, Restart(n)
      PROVE  Promise!Next
  BY <1>3, NodesMayRestart, RestartCrashes DEF Promise!Next
<1>4. ASSUME UNCHANGED vars
      PROVE  UNCHANGED Promise!promised
  BY <1>4, Quiet DEF vars, putVars, getVars, history
<1> QED BY <1>1, <1>2, <1>3, <1>4 DEF Next

\* Where R + W > N and all coordinators use one replica set, Put and Get, with
\* their retries, late requests, read repairs and restarts, give a client what
\* QuorumStore promises.
THEOREM KeepsItsPromise ==
  ASSUME OneReplicaSet, ReadQuorum + WriteQuorum > Cardinality(Slot)
  PROVE  Spec => KeepsPromise
<1>1. Init => Promise!Init
  BY InitPromised
<1>2. Inv /\ QuorumRead' /\ [Next]_vars => [Promise!Next]_(Promise!promised)
  BY StepPromised
<1> QED BY <1>1, <1>2, Invariance, QuorumReads, PTL
        DEF Spec, KeepsPromise, Promise!Spec
=============================================================================
