------------------------- MODULE ReplicationProofs -------------------------
(* The safety of quorum replication, for any number of nodes, writes, reads  *)
(* and attempts and any lists of responsible nodes.                          *)
EXTENDS ReplicationProperties, VersionTheorems, FiniteSetTheorems

\* The invariant holds at the start.
LEMMA InitInv == Init => Inv
<1> SUFFICES ASSUME Init PROVE Inv
  OBVIOUS
<1> USE DEF Init
<1>1. TypeOK
  <2>1. Absent \in Version
    BY AbsentType
  <2>2. 1 \in 1..MaxAttempts
    BY SomeAttempts
  <2> QED BY <2>1, <2>2 DEF TypeOK
<1>2. RequestsOK
  BY DEF RequestsOK, Started, OkSlots
<1>3. VersionsOK
  BY DEF VersionsOK, Blank, Absent
<1>4. ConfirmedIsHeld
  BY DEF ConfirmedIsHeld, Acked, OkSlots
<1>5. ReadsSeeConfirmed
  BY DEF ReadsSeeConfirmed, ReadOK, Acked
<1> QED BY <1>1, <1>2, <1>3, <1>4, <1>5 DEF Inv

-----------------------------------------------------------------------------
(* Types, requests and versions *)

LEMMA PutStartTypes ==
  ASSUME Inv, NEW p \in Put, NEW n \in Node, NEW to \in NodeLists,
         PutStart(p, n, to)
  PROVE  TypeOK' /\ RequestsOK' /\ VersionsOK'
<1> USE DEF Inv, PutStart, nodeVars, getVars, history
<1>1. [at |-> n, to |-> to, vc |-> updateLocalVectorClock(n)] \in PutRequest
  BY ClockOperationsType DEF updateLocalVectorClock, PutRequest, TypeOK, Version
<1>2. 1 \in 1..MaxAttempts
  BY SomeAttempts
<1>3. {<<p, s, 1>> : s \in RemoteSlots(n, to)} \subseteq Put \X Slot \X (1..MaxAttempts)
  BY <1>2 DEF RemoteSlots
<1>4. TypeOK'
  BY <1>1, <1>3 DEF TypeOK
<1>5. RequestsOK'
  <2>1. \A q \in Put : Started(q)' <=> (q = p \/ Started(q))
    BY DEF Started, TypeOK
  <2>2. \A w \in {<<p, s, 1>> : s \in RemoteSlots(n, to)} : w[1] = p
    OBVIOUS
  <2>3. \A q \in Put : Started(q)' => (putReq[q] \in PutRequest)'
    BY <1>1, <2>1 DEF RequestsOK, TypeOK
  <2>4. \A q \in Put : \A s \in OkSlots(q)' : Started(q)'
    BY <2>1 DEF RequestsOK, OkSlots
  <2>5. \A w \in writes' : Started(w[1])'
    <3> SUFFICES ASSUME NEW w \in writes' PROVE Started(w[1])'
      OBVIOUS
    <3>1. CASE w \in writes
      <4>1. Started(w[1]) /\ w[1] \in Put
        BY <3>1 DEF RequestsOK, TypeOK
      <4> QED BY <4>1, <2>1
    <3>2. CASE w \in {<<p, s, 1>> : s \in RemoteSlots(n, to)}
      BY <3>2, <2>1, <2>2
    <3> QED BY <3>1, <3>2
  <2> QED BY <2>3, <2>4, <2>5 DEF RequestsOK
<1>6. VersionsOK'
  BY DEF VersionsOK, Blank
<1> QED BY <1>4, <1>5, <1>6

\* localPut leaves a version that is there, at the node that executes it.
LEMMA SavedType ==
  ASSUME Inv, NEW n \in Node, NEW sv \in Version, Blank(sv), Save(n, sv)
  PROVE  /\ store' \in [Node -> Version]
         /\ disk' \in [Node -> Version]
         /\ disk' = store'
         /\ \A m \in Node : Blank(store'[m])
  BY DEF Inv, TypeOK, VersionsOK, Save

LEMMA LocalPutIsThere ==
  \A sv \in Version : \A p \in Put : \A vc \in Clock :
    localPut(sv, p, vc).val # None
  BY NoneIsNoPut DEF localPut, Written

LEMMA WriteHereTypes ==
  ASSUME Inv, NEW p \in Put, NEW s \in Slot, WriteHere(p, s)
  PROVE  TypeOK' /\ RequestsOK' /\ VersionsOK'
<1> USE DEF Inv, WriteHere, getVars, history
<1>1. putReq[p] \in PutRequest
  BY DEF RequestsOK, Started
<1> DEFINE n == putReq[p].at
           new == localPut(store[n], p, putReq[p].vc)
<1>2. n \in Node /\ putReq[p].vc \in Clock
  BY <1>1 DEF PutRequest
<1>3. store[n] \in Version
  BY <1>2 DEF TypeOK
<1>4. new \in Version /\ new.val # None
  BY <1>2, <1>3, LocalPutType, LocalPutIsThere
<1>5. /\ store' \in [Node -> Version]
      /\ disk' \in [Node -> Version]
      /\ disk' = store'
      /\ \A m \in Node : Blank(store'[m])
  BY <1>2, <1>4, SavedType DEF Blank
<1>6. TypeOK'
  BY <1>5 DEF TypeOK
<1>7. RequestsOK'
  BY DEF RequestsOK, TypeOK, Started, OkSlots
<1>8. VersionsOK'
  BY <1>5 DEF VersionsOK, Blank
<1> QED BY <1>6, <1>7, <1>8

\* The PutLocal handler runs localPut, with the write's clock or, were that
\* clock empty, with one above it.
LEMMA ReplicaWriteIsLocalPut ==
  ASSUME NEW n \in Node, NEW sv \in Version, NEW p \in Put, NEW vc \in Clock
  PROVE  \E w \in Clock :
           /\ Leq(vc, w)
           /\ applyReplicaWrite(n, sv, Written(p, vc), FALSE) = localPut(sv, p, w)
<1> DEFINE w == IF IsEmpty(vc) THEN Increment(NewVectorClock, n) ELSE vc
<1>1. w \in Clock
  BY ClockOperationsType
<1>2. Leq(vc, w)
  <2>1. CASE IsEmpty(vc)
    <3>1. ASSUME NEW x \in Clock, NEW m \in Node
          PROVE  vc[m] <= x[m]
      <4>1. vc[m] = 0 /\ x[m] \in Nat
        BY <2>1 DEF IsEmpty, Clock
      <4> QED BY <4>1
    <3> QED BY <1>1, <3>1 DEF Leq
  <2>2. CASE ~IsEmpty(vc)
    BY <2>2, LeqIsPartialOrder
  <2> QED BY <2>1, <2>2
<1>3. Written(p, vc).vc = vc /\ Written(p, vc).val = p
  BY DEF Written
<1>4. applyReplicaWrite(n, sv, Written(p, vc), FALSE) = localPut(sv, p, w)
  BY <1>3 DEF applyReplicaWrite
<1> QED BY <1>1, <1>2, <1>4

LEMMA DeliverWriteTypes ==
  ASSUME Inv, NEW p \in Put, NEW s \in Slot, NEW k \in 1..MaxAttempts,
         DeliverWrite(p, s, k)
  PROVE  TypeOK' /\ RequestsOK' /\ VersionsOK'
<1> USE DEF Inv, DeliverWrite, getVars, history
<1>1. Started(p)
  BY DEF RequestsOK
<1>2. putReq[p] \in PutRequest
  BY <1>1 DEF RequestsOK
<1> DEFINE n == PutNode(p, s)
           new == applyReplicaWrite(n, store[n], Written(p, putReq[p].vc), FALSE)
<1>3. n \in Node /\ putReq[p].vc \in Clock
  BY <1>2, ListsOfNodes DEF PutRequest, PutNode
<1>4. store[n] \in Version
  BY <1>3 DEF TypeOK
<1>5. new \in Version /\ new.val # None
  <2>1. PICK w \in Clock : new = localPut(store[n], p, w)
    BY <1>3, <1>4, ReplicaWriteIsLocalPut
  <2> QED BY <1>4, <2>1, LocalPutType, LocalPutIsThere
<1>6. /\ store' \in [Node -> Version]
      /\ disk' \in [Node -> Version]
      /\ disk' = store'
      /\ \A m \in Node : Blank(store'[m])
  BY <1>3, <1>5, SavedType DEF Blank
<1>7. call' \in [Put -> [Slot -> {"wait", "ok", "failed"}]]
      /\ \A q \in Put, t \in Slot : call'[q][t] = "ok" => call[q][t] = "ok" \/ q = p
  <2>1. CASE call' = [call EXCEPT ![p][s] = "ok"]
    BY <2>1 DEF TypeOK
  <2>2. CASE UNCHANGED call
    BY <2>2 DEF TypeOK
  <2> QED BY <2>1, <2>2
<1>8. TypeOK'
  BY <1>6, <1>7 DEF TypeOK
<1>9. RequestsOK'
  <2>1. \A q \in Put : Started(q)' <=> Started(q)
    BY DEF Started
  <2>2. \A q \in Put : \A t \in OkSlots(q)' : Started(q)'
    BY <1>1, <1>7, <2>1 DEF RequestsOK, OkSlots
  <2>3. \A w \in writes' : Started(w[1])'
    BY DEF RequestsOK, Started
  <2> QED BY <2>1, <2>2, <2>3 DEF RequestsOK
<1>10. VersionsOK'
  BY <1>6 DEF VersionsOK, Blank
<1> QED BY <1>8, <1>9, <1>10

LEMMA WriteAttemptFailsTypes ==
  ASSUME Inv, NEW p \in Put, NEW s \in Slot, WriteAttemptFails(p, s)
  PROVE  TypeOK' /\ RequestsOK' /\ VersionsOK'
<1> USE DEF Inv, WriteAttemptFails, nodeVars, getVars, history
<1>1. CASE /\ tries[p][s] < MaxAttempts
           /\ tries' = [tries EXCEPT ![p][s] = @ + 1]
           /\ writes' = writes \cup {<<p, s, tries[p][s] + 1>>}
           /\ UNCHANGED call
  <2>1. tries[p][s] + 1 \in 1..MaxAttempts
    BY <1>1, SomeAttempts DEF TypeOK
  <2>2. tries' \in [Put -> [Slot -> 1..MaxAttempts]]
    BY <1>1, <2>1 DEF TypeOK
  <2>3. TypeOK'
    BY <1>1, <2>1, <2>2 DEF TypeOK
  <2>4. RequestsOK'
    BY <1>1 DEF RequestsOK, TypeOK, Started, OkSlots
  <2> QED BY <1>1, <2>3, <2>4 DEF VersionsOK, Blank
<1>2. CASE /\ tries[p][s] = MaxAttempts
           /\ call' = [call EXCEPT ![p][s] = "failed"]
           /\ UNCHANGED <<tries, writes>>
  <2>1. TypeOK'
    BY <1>2 DEF TypeOK
  <2>2. RequestsOK'
    BY <1>2 DEF RequestsOK, TypeOK, Started, OkSlots
  <2> QED BY <1>2, <2>1, <2>2 DEF VersionsOK, Blank
<1> QED BY <1>1, <1>2

LEMMA PutReturnTypes ==
  ASSUME Inv, NEW p \in Put, PutReturn(p)
  PROVE  TypeOK' /\ RequestsOK' /\ VersionsOK'
<1> USE DEF Inv, PutReturn, nodeVars, getVars, history
<1>1. TypeOK'
  BY DEF TypeOK
<1>2. RequestsOK'
  BY DEF RequestsOK, TypeOK, Started, OkSlots
<1>3. VersionsOK'
  BY DEF VersionsOK, Blank
<1> QED BY <1>1, <1>2, <1>3

LEMMA GetStartTypes ==
  ASSUME Inv, NEW g \in Get, NEW n \in Node, NEW to \in NodeLists,
         GetStart(g, n, to)
  PROVE  TypeOK' /\ RequestsOK' /\ VersionsOK'
<1> USE DEF Inv, GetStart, nodeVars, putVars
<1>1. TypeOK'
  BY DEF TypeOK, GetRequest, Acked
<1>2. RequestsOK'
  BY DEF RequestsOK, TypeOK, Started, OkSlots, GetRequest
<1>3. VersionsOK'
  BY DEF VersionsOK, Blank
<1> QED BY <1>1, <1>2, <1>3

LEMMA ReadValueTypes ==
  ASSUME Inv, NEW g \in Get, NEW s \in Slot, ReadValue(g, s)
  PROVE  TypeOK' /\ RequestsOK' /\ VersionsOK'
<1> USE DEF Inv, ReadValue, nodeVars, putVars, history
<1>1. getReq[g] \in GetRequest
  BY DEF RequestsOK
<1>2. GetNode(g, s) \in Node
  BY <1>1, ListsOfNodes DEF GetNode, GetRequest
<1>3. store[GetNode(g, s)] \in Version
  BY <1>2 DEF TypeOK
<1>4. /\ DOMAIN resp' = Get
      /\ \A h \in Get : h # g => resp'[h] = resp[h]
      /\ resp'[g] = WithResponse(resp[g], GetNode(g, s), store[GetNode(g, s)])
  BY DEF TypeOK
<1>5. /\ DOMAIN resp'[g] = DOMAIN resp[g] \cup {GetNode(g, s)}
      /\ \A n \in DOMAIN resp'[g] :
           resp'[g][n] = IF n = GetNode(g, s) THEN store[n] ELSE resp[g][n]
  BY <1>4 DEF WithResponse
<1>6. TypeOK'
  BY <1>2, <1>3, <1>4, <1>5 DEF TypeOK
<1>7. RequestsOK'
  BY DEF RequestsOK, TypeOK, Started, OkSlots
<1>8. VersionsOK'
  BY <1>4, <1>5 DEF VersionsOK, Blank
<1> QED BY <1>6, <1>7, <1>8

LEMMA ReadNothingTypes ==
  ASSUME Inv, NEW g \in Get, NEW s \in Slot, ReadNothing(g, s)
  PROVE  TypeOK' /\ RequestsOK' /\ VersionsOK'
<1> USE DEF Inv, ReadNothing, nodeVars, putVars, history
<1>1. TypeOK'
  BY DEF TypeOK
<1>2. RequestsOK'
  BY DEF RequestsOK, TypeOK, Started, OkSlots
<1>3. VersionsOK'
  BY DEF VersionsOK, Blank
<1> QED BY <1>1, <1>2, <1>3

LEMMA ReadQuorumMetTypes ==
  ASSUME Inv, NEW g \in Get, ReadQuorumMet(g)
  PROVE  TypeOK' /\ RequestsOK' /\ VersionsOK'
<1> USE DEF Inv, ReadQuorumMet, nodeVars, putVars, history
<1>1. TypeOK'
  BY DEF TypeOK
<1>2. RequestsOK'
  BY DEF RequestsOK, TypeOK, Started, OkSlots
<1>3. VersionsOK'
  BY DEF VersionsOK, Blank
<1> QED BY <1>1, <1>2, <1>3

LEMMA ReadQuorumMissedTypes ==
  ASSUME Inv, NEW g \in Get, ReadQuorumMissed(g)
  PROVE  TypeOK' /\ RequestsOK' /\ VersionsOK'
<1> USE DEF Inv, ReadQuorumMissed, nodeVars, putVars, history
<1>1. getReq[g] \in GetRequest
  BY DEF RequestsOK
<1>2. store[getReq[g].at] \in Version
  BY <1>1 DEF GetRequest, TypeOK
<1>3. TypeOK'
  BY <1>2 DEF TypeOK
<1>4. RequestsOK'
  BY DEF RequestsOK, TypeOK, Started, OkSlots
<1>5. VersionsOK'
  BY DEF VersionsOK, Blank, TypeOK
<1> QED BY <1>3, <1>4, <1>5

LEMMA ResolveResponseTypes ==
  ASSUME Inv, NEW g \in Get, NEW n \in Node, ResolveResponse(g, n)
  PROVE  TypeOK' /\ RequestsOK' /\ VersionsOK'
<1> USE DEF Inv, ResolveResponse, nodeVars, putVars, history
<1>1. PICK sv \in Resolved(cur[g], resp[g][n]) : cur' = [cur EXCEPT ![g] = sv]
  OBVIOUS
<1> n \in DOMAIN resp[g]
  BY DEF ReadsSeeConfirmed, ReadOK
<1>2. cur[g] \in Version /\ resp[g][n] \in Version
  BY DEF TypeOK
<1>3. sv \in Version /\ sv.val # None
  BY <1>1, <1>2, ResolvedDominates DEF VersionsOK, Blank
<1>4. conflicted' \in [Get -> BOOLEAN]
  BY DEF TypeOK, CountsAsConflict
<1>5. TypeOK'
  BY <1>1, <1>3, <1>4 DEF TypeOK
<1>6. RequestsOK'
  BY DEF RequestsOK, TypeOK, Started, OkSlots
<1>7. VersionsOK'
  BY <1>1, <1>3 DEF VersionsOK, Blank, TypeOK
<1> QED BY <1>5, <1>6, <1>7

LEMMA GetReturnTypes ==
  ASSUME Inv, NEW g \in Get, GetReturn(g)
  PROVE  TypeOK' /\ RequestsOK' /\ VersionsOK'
<1> USE DEF Inv, GetReturn, nodeVars, putVars, history
<1>1. RemoteSlots(getReq[g].at, getReq[g].to) \subseteq Slot
  BY DEF RemoteSlots
<1>2. TypeOK'
  BY <1>1 DEF TypeOK
<1>3. RequestsOK'
  BY DEF RequestsOK, TypeOK, Started, OkSlots
<1>4. VersionsOK'
  BY DEF VersionsOK, Blank
<1> QED BY <1>2, <1>3, <1>4

LEMMA DeliverRepairTypes ==
  ASSUME Inv, NEW g \in Get, NEW s \in Slot, DeliverRepair(g, s)
  PROVE  TypeOK' /\ RequestsOK' /\ VersionsOK'
<1> USE DEF Inv, DeliverRepair, putVars
<1>1. getPc[g] = "done" /\ getReq[g] \in GetRequest
  BY DEF RequestsOK
<1>2. GetNode(g, s) \in Node
  BY <1>1, ListsOfNodes DEF GetNode, GetRequest
<1>3. /\ store' \in [Node -> Version]
      /\ disk' \in [Node -> Version]
      /\ disk' = store'
      /\ \A m \in Node : Blank(store'[m])
  <2>1. cur[g] \in Version /\ Blank(cur[g])
    BY DEF TypeOK, VersionsOK
  <2> QED BY <1>2, <2>1, SavedType DEF storeReplicaValue
<1>4. TypeOK'
  BY <1>2, <1>3 DEF TypeOK
<1>5. RequestsOK'
  BY <1>1 DEF RequestsOK, TypeOK, Started, OkSlots
<1>6. VersionsOK'
  BY <1>3 DEF VersionsOK, Blank
<1> QED BY <1>4, <1>5, <1>6

LEMMA RestartTypes ==
  ASSUME Inv, NEW n \in MayRestart, Restart(n)
  PROVE  TypeOK' /\ RequestsOK' /\ VersionsOK' /\ store' = store
<1> USE DEF Inv, Restart, history
<1>1. n \in Node
  BY NodesMayRestart
<1>2. store' = store
  BY <1>1 DEF TypeOK, VersionsOK
<1>3. /\ putPc' \in [Put -> {"idle", "running", "acked", "failed", "crashed"}]
      /\ getPc' \in [Get -> {"idle", "gather", "resolve", "done", "local",
                             "failed", "crashed"}]
  BY DEF TypeOK
<1>4. TypeOK'
  BY <1>2, <1>3 DEF TypeOK
<1>5. RequestsOK'
  BY DEF RequestsOK, TypeOK, Started, OkSlots
<1>6. VersionsOK'
  BY <1>2 DEF VersionsOK, Blank
<1> QED BY <1>2, <1>4, <1>5, <1>6

-----------------------------------------------------------------------------
(* What every step does to the stores and to the writes. *)

\* No store loses knowledge except by a repair that is recorded; a request
\* that was made stays as it is; a place that becomes "ok" belongs to a
\* running write that its node knows from now on; an acknowledged write is
\* finished and had its quorum.
StepFacts ==
  /\ overwritten \subseteq overwritten'
  /\ \A n \in Node : n \notin overwritten' => Leq(store[n].vc, store'[n].vc)
  /\ \A p \in Put : Started(p) => Started(p)' /\ putReq'[p] = putReq[p]
  /\ \A p \in Put : \A s \in OkSlots(p)' :
       \/ s \in OkSlots(p)
       \/ Started(p) /\ Leq(PutClock(p), store'[PutNode(p, s)].vc)
  /\ \A p \in Acked : p \in Acked' /\ OkSlots(p)' = OkSlots(p)
  /\ \A p \in Acked' \ Acked :
       OkSlots(p)' = OkSlots(p) /\ Cardinality(OkSlots(p)) >= WriteQuorum

\* A step that leaves the stores alone keeps what they know.
LEMMA SameStores ==
  ASSUME Inv, UNCHANGED <<store, overwritten>>
  PROVE  /\ overwritten \subseteq overwritten'
         /\ \A n \in Node : n \notin overwritten' => Leq(store[n].vc, store'[n].vc)
<1>1. \A n \in Node : store[n].vc \in Clock
  BY DEF Inv, TypeOK, Version
<1> QED BY <1>1, LeqIsPartialOrder

\* A step that leaves the writes alone, too.
LEMMA SameWrites ==
  ASSUME UNCHANGED <<putPc, putReq, call>>
  PROVE  /\ \A p \in Put : Started(p) => Started(p)' /\ putReq'[p] = putReq[p]
         /\ \A p \in Put : OkSlots(p)' = OkSlots(p)
         /\ Acked' = Acked
  BY DEF Started, OkSlots, Acked

LEMMA PutStartFacts ==
  ASSUME Inv, NEW p \in Put, NEW n \in Node, NEW to \in NodeLists,
         PutStart(p, n, to)
  PROVE  StepFacts
<1> USE DEF PutStart, nodeVars, getVars, history
<1>1. /\ overwritten \subseteq overwritten'
      /\ \A m \in Node : m \notin overwritten' => Leq(store[m].vc, store'[m].vc)
  BY SameStores
<1>2. \A q \in Put : Started(q) => Started(q)' /\ putReq'[q] = putReq[q]
  BY DEF Inv, TypeOK, Started
<1>3. \A q \in Put : OkSlots(q)' = OkSlots(q)
  BY DEF OkSlots
<1>4. Acked' = Acked
  BY DEF Inv, TypeOK, Acked
<1> QED BY <1>1, <1>2, <1>3, <1>4 DEF StepFacts, Acked

\* localPut at node n: the store only advances, and then covers the write.
LEMMA LocalPutAdvances ==
  ASSUME Inv, NEW n \in Node, NEW p \in Put, NEW vc \in Clock, NEW w \in Clock,
         Leq(vc, w), Save(n, localPut(store[n], p, w)), UNCHANGED overwritten
  PROVE  /\ overwritten \subseteq overwritten'
         /\ \A m \in Node : m \notin overwritten' => Leq(store[m].vc, store'[m].vc)
         /\ Leq(vc, store'[n].vc)
<1> DEFINE new == localPut(store[n], p, w)
<1>1. \A m \in Node : store[m] \in Version /\ store[m].vc \in Clock
  BY DEF Inv, TypeOK, Version
<1>2. new \in Version /\ new.vc \in Clock
  BY <1>1, LocalPutType DEF Version
<1>3. Leq(store[n].vc, new.vc) /\ Leq(w, new.vc)
  BY <1>1, LocalPutDominates DEF Inv, VersionsOK, Blank
<1>4. Leq(vc, new.vc)
  BY <1>2, <1>3, LeqIsPartialOrder
<1>5. \A m \in Node : store'[m] = IF m = n THEN new ELSE store[m]
  BY DEF Save, Inv, TypeOK
<1> HIDE DEF new
<1> QED BY <1>1, <1>3, <1>4, <1>5, LeqIsPartialOrder

LEMMA WriteHereFacts ==
  ASSUME Inv, NEW p \in Put, NEW s \in Slot, WriteHere(p, s)
  PROVE  StepFacts
<1> USE DEF WriteHere, getVars, history
<1>1. putReq[p] \in PutRequest
  BY DEF Inv, RequestsOK, Started
<1>2. putReq[p].at \in Node /\ PutClock(p) \in Clock
  BY <1>1 DEF PutRequest, PutClock
<1>3. Leq(PutClock(p), PutClock(p))
  BY <1>2, LeqIsPartialOrder
<1>4. /\ overwritten \subseteq overwritten'
      /\ \A m \in Node : m \notin overwritten' => Leq(store[m].vc, store'[m].vc)
      /\ Leq(PutClock(p), store'[PutNode(p, s)].vc)
  BY <1>2, <1>3, LocalPutAdvances DEF PutClock
<1>5. \A q \in Put : Started(q)' = Started(q) /\ putReq'[q] = putReq[q]
  BY DEF Started
<1>6. \A q \in Put : \A t \in OkSlots(q)' : t \in OkSlots(q) \/ (q = p /\ t = s)
  BY DEF Inv, TypeOK, OkSlots
<1>7. Acked' = Acked /\ p \notin Acked
  BY DEF Acked
<1>8. \A q \in Put : q # p => OkSlots(q)' = OkSlots(q)
  BY DEF Inv, TypeOK, OkSlots
<1>9. Started(p)
  BY DEF Started
<1> QED BY <1>4, <1>5, <1>6, <1>7, <1>8, <1>9 DEF StepFacts, Acked

LEMMA DeliverWriteFacts ==
  ASSUME Inv, NEW p \in Put, NEW s \in Slot, NEW k \in 1..MaxAttempts,
         DeliverWrite(p, s, k)
  PROVE  StepFacts
<1> USE DEF DeliverWrite, getVars, history
<1>1. Started(p)
  BY DEF Inv, RequestsOK
<1>2. putReq[p] \in PutRequest
  BY <1>1 DEF Inv, RequestsOK
<1> DEFINE n == PutNode(p, s)
<1>3. n \in Node /\ PutClock(p) \in Clock
  BY <1>2, ListsOfNodes DEF PutRequest, PutNode, PutClock
<1>4. store[n] \in Version
  BY <1>3 DEF Inv, TypeOK
<1>5. PICK w \in Clock :
        /\ Leq(PutClock(p), w)
        /\ applyReplicaWrite(n, store[n], Written(p, PutClock(p)), FALSE)
             = localPut(store[n], p, w)
  BY <1>3, <1>4, ReplicaWriteIsLocalPut
<1>6. /\ overwritten \subseteq overwritten'
      /\ \A m \in Node : m \notin overwritten' => Leq(store[m].vc, store'[m].vc)
      /\ Leq(PutClock(p), store'[n].vc)
  BY <1>3, <1>5, LocalPutAdvances DEF PutClock
<1>7. \A q \in Put : Started(q)' = Started(q) /\ putReq'[q] = putReq[q]
  BY DEF Started
<1>8. CASE /\ putPc[p] = "running" /\ call[p][s] = "wait" /\ tries[p][s] = k
           /\ call' = [call EXCEPT ![p][s] = "ok"]
  <2>1. \A q \in Put : \A t \in OkSlots(q)' : t \in OkSlots(q) \/ (q = p /\ t = s)
    BY <1>8 DEF Inv, TypeOK, OkSlots
  <2>2. Acked' = Acked /\ p \notin Acked
    BY <1>8 DEF Acked
  <2>3. \A q \in Put : q # p => OkSlots(q)' = OkSlots(q)
    BY <1>8 DEF Inv, TypeOK, OkSlots
  <2> QED BY <1>1, <1>6, <1>7, <2>1, <2>2, <2>3 DEF StepFacts, Acked
<1>9. CASE UNCHANGED call
  <2>1. Acked' = Acked /\ \A q \in Put : OkSlots(q)' = OkSlots(q)
    BY <1>9 DEF Acked, OkSlots
  <2> QED BY <1>6, <1>7, <2>1 DEF StepFacts, Acked
<1> QED BY <1>8, <1>9

LEMMA WriteAttemptFailsFacts ==
  ASSUME Inv, NEW p \in Put, NEW s \in Slot, WriteAttemptFails(p, s)
  PROVE  StepFacts
<1> USE DEF WriteAttemptFails, nodeVars, getVars, history
<1>1. /\ overwritten \subseteq overwritten'
      /\ \A m \in Node : m \notin overwritten' => Leq(store[m].vc, store'[m].vc)
  BY SameStores
<1>2. \A q \in Put : Started(q)' = Started(q) /\ putReq'[q] = putReq[q]
  BY DEF Started
<1>3. \A q \in Put : OkSlots(q)' = OkSlots(q)
  <2>1. CASE UNCHANGED call
    BY <2>1 DEF OkSlots
  <2>2. CASE call' = [call EXCEPT ![p][s] = "failed"]
    <3>1. \A q \in Put, t \in Slot : call'[q][t] = "ok" <=> call[q][t] = "ok"
      BY <2>2 DEF Inv, TypeOK
    <3> QED BY <3>1 DEF OkSlots
  <2> QED BY <2>1, <2>2
<1>4. Acked' = Acked
  BY DEF Acked
<1> QED BY <1>1, <1>2, <1>3, <1>4 DEF StepFacts, Acked

LEMMA PutReturnFacts ==
  ASSUME Inv, NEW p \in Put, PutReturn(p)
  PROVE  StepFacts
<1> USE DEF PutReturn, nodeVars, getVars, history
<1>1. /\ overwritten \subseteq overwritten'
      /\ \A m \in Node : m \notin overwritten' => Leq(store[m].vc, store'[m].vc)
  BY SameStores
<1>2. \A q \in Put : Started(q) => Started(q)' /\ putReq'[q] = putReq[q]
  BY DEF Inv, TypeOK, Started
<1>3. \A q \in Put : OkSlots(q)' = OkSlots(q)
  BY DEF OkSlots
<1>4. Acked \subseteq Acked'
  BY DEF Inv, TypeOK, Acked
<1>5. IsFiniteSet(OkSlots(p)) /\ Cardinality(OkSlots(p)) \in Nat
  BY SlotsAreFinite, FS_Subset, FS_CardinalityType DEF OkSlots
<1>6. \A q \in Acked' \ Acked : q = p /\ Cardinality(OkSlots(p)) >= WriteQuorum
  BY <1>5, QuorumsArePositive DEF Inv, TypeOK, Acked
<1> QED BY <1>1, <1>2, <1>3, <1>4, <1>6 DEF StepFacts, Acked

\* The steps of a read that touch neither stores nor writes.
LEMMA ReadStepFacts ==
  ASSUME Inv, UNCHANGED <<store, overwritten, putPc, putReq, call>>
  PROVE  StepFacts
  BY SameStores, SameWrites DEF StepFacts, Acked

LEMMA DeliverRepairFacts ==
  ASSUME Inv, NEW g \in Get, NEW s \in Slot, DeliverRepair(g, s)
  PROVE  StepFacts
<1> USE DEF DeliverRepair, putVars
<1> DEFINE n == GetNode(g, s)
<1>1. /\ overwritten \subseteq overwritten'
      /\ \A m \in Node : m \notin overwritten' => Leq(store[m].vc, store'[m].vc)
  <2>1. overwritten \subseteq overwritten'
    OBVIOUS
  <2>2. ASSUME NEW m \in Node, m \notin overwritten'
        PROVE  Leq(store[m].vc, store'[m].vc)
    <3>1. store[m].vc \in Clock
      BY DEF Inv, TypeOK, Version
    <3>2. CASE m = n
      <4>1. Leq(store[n].vc, cur[g].vc)
        BY <2>2, <3>2
      <4>2. store'[m] = cur[g]
        BY <3>2 DEF Save, storeReplicaValue, Inv, TypeOK
      <4> QED BY <3>2, <4>1, <4>2
    <3>3. CASE m # n
      BY <3>1, <3>3, LeqIsPartialOrder DEF Save, Inv, TypeOK
    <3> QED BY <3>2, <3>3
  <2> QED BY <2>1, <2>2
<1> QED BY <1>1, SameWrites DEF StepFacts, Acked

LEMMA RestartFacts ==
  ASSUME Inv, NEW n \in MayRestart, Restart(n)
  PROVE  StepFacts
<1> USE DEF Restart, history
<1>1. store' = store
  BY RestartTypes
<1>2. /\ overwritten \subseteq overwritten'
      /\ \A m \in Node : m \notin overwritten' => Leq(store[m].vc, store'[m].vc)
  BY <1>1, SameStores
<1>3. \A q \in Put : Started(q) => Started(q)' /\ putReq'[q] = putReq[q]
  BY DEF Started
<1>4. \A q \in Put : OkSlots(q)' = OkSlots(q)
  BY DEF OkSlots
<1>5. Acked' = Acked
  BY DEF Acked
<1> QED BY <1>2, <1>3, <1>4, <1>5 DEF StepFacts, Acked

\* A request a node confirmed belongs to a write that was made, so the facts
\* carry ConfirmedIsHeld over any step.
LEMMA HeldStep ==
  ASSUME Inv, TypeOK', RequestsOK', StepFacts
  PROVE  ConfirmedIsHeld'
<1>1. ASSUME NEW p \in Put, NEW s \in OkSlots(p)',
             PutNode(p, s)' \notin overwritten'
      PROVE  Leq(PutClock(p)', store'[PutNode(p, s)'].vc)
  <2>1. Started(p) /\ putReq'[p] = putReq[p]
    <3>1. Started(p)
      BY <1>1 DEF Inv, RequestsOK, StepFacts
    <3> QED BY <3>1 DEF StepFacts
  <2>2. PutNode(p, s)' = PutNode(p, s) /\ PutClock(p)' = PutClock(p)
    BY <2>1 DEF PutNode, PutClock
  <2>3. putReq[p] \in PutRequest /\ s \in Slot
    BY <2>1, <1>1 DEF Inv, RequestsOK, OkSlots
  <2>4. PutNode(p, s) \in Node /\ PutClock(p) \in Clock
    BY <2>3, ListsOfNodes DEF PutRequest, PutNode, PutClock
  <2>5. CASE s \in OkSlots(p)
    <3>1. Leq(PutClock(p), store[PutNode(p, s)].vc)
      BY <1>1, <2>2, <2>5 DEF Inv, ConfirmedIsHeld, StepFacts
    <3>2. Leq(store[PutNode(p, s)].vc, store'[PutNode(p, s)].vc)
      BY <1>1, <2>2, <2>4 DEF StepFacts
    <3>3. /\ store[PutNode(p, s)].vc \in Clock
          /\ store'[PutNode(p, s)].vc \in Clock
      BY <2>4 DEF Inv, TypeOK, Version
    <3> QED BY <2>2, <2>4, <3>1, <3>2, <3>3, LeqIsPartialOrder
  <2>6. CASE s \notin OkSlots(p)
    BY <1>1, <2>2, <2>6 DEF StepFacts
  <2> QED BY <2>5, <2>6
<1>2. ASSUME NEW p \in Acked'
      PROVE  Cardinality(OkSlots(p)') >= WriteQuorum
  <2>1. CASE p \in Acked
    BY <2>1 DEF StepFacts, Inv, ConfirmedIsHeld
  <2>2. CASE p \notin Acked
    BY <1>2, <2>2 DEF StepFacts
  <2> QED BY <2>1, <2>2
<1> QED BY <1>1, <1>2 DEF ConfirmedIsHeld

-----------------------------------------------------------------------------
(* What a read has gathered stays good, and each of its steps adds to it. *)

\* Acknowledged writes keep their clock and the nodes that confirmed them.
LEMMA AckedStable ==
  ASSUME Inv, StepFacts, NEW p \in Acked
  PROVE  /\ p \in Acked'
         /\ Confirmed(p)' = Confirmed(p)
         /\ PutClock(p)' = PutClock(p)
<1>1. p \in Put /\ Started(p)
  BY DEF Acked, Started
<1>2. putReq'[p] = putReq[p] /\ p \in Acked' /\ OkSlots(p)' = OkSlots(p)
  BY <1>1 DEF StepFacts
<1> QED BY <1>2 DEF Confirmed, PutNode, PutClock

\* A read that does not move, or crashes, stays as good as it was.
LEMMA OtherRead ==
  ASSUME Inv, StepFacts, NEW h \in Get,
         resp'[h] = resp[h], todo'[h] = todo[h], cur'[h] = cur[h],
         getReq'[h] = getReq[h], ackedBefore'[h] = ackedBefore[h],
         getPc'[h] = getPc[h] \/ getPc'[h] = "crashed"
  PROVE  ReadOK(h)'
<1>1. ReadOK(h)
  BY DEF Inv, ReadsSeeConfirmed
<1>2. ackedBefore[h] \subseteq Acked
  BY <1>1 DEF ReadOK
<1>3. (ackedBefore[h] \subseteq Acked)'
  BY <1>2, AckedStable
<1>4. overwritten \subseteq overwritten'
  BY DEF StepFacts
<1>5. ASSUME NEW n \in DOMAIN resp[h]
      PROVE  /\ getPc'[h] # "idle"
             /\ \E s \in Slot : n = GetNode(h, s)'
             /\ n \notin overwritten' =>
                  \A p \in ackedBefore[h] :
                    n \in Confirmed(p)' => Leq(PutClock(p)', resp[h][n].vc)
  <2>1. getPc[h] # "idle" /\ \E s \in Slot : n = GetNode(h, s)
    BY <1>1 DEF ReadOK
  <2>2. \E s \in Slot : n = GetNode(h, s)'
    BY <2>1 DEF GetNode
  <2>3. ASSUME n \notin overwritten', NEW p \in ackedBefore[h],
               n \in Confirmed(p)'
        PROVE  Leq(PutClock(p)', resp[h][n].vc)
    <3>1. Confirmed(p)' = Confirmed(p) /\ PutClock(p)' = PutClock(p)
      BY <1>2, AckedStable
    <3>2. n \in Confirmed(p) /\ n \notin overwritten
      BY <1>4, <2>3, <3>1
    <3> QED BY <1>1, <3>1, <3>2 DEF ReadOK
  <2> QED BY <2>1, <2>2, <2>3
<1> QED BY <1>1, <1>3, <1>5 DEF ReadOK

LEMMA GetStartReads ==
  ASSUME Inv, NEW g \in Get, NEW n \in Node, NEW to \in NodeLists,
         GetStart(g, n, to)
  PROVE  ReadsSeeConfirmed'
<1> USE DEF GetStart, nodeVars, putVars
<1>1. StepFacts
  BY ReadStepFacts
<1>2. ASSUME NEW h \in Get, h # g
      PROVE  ReadOK(h)'
  BY <1>1, <1>2, OtherRead DEF Inv, TypeOK
<1>3. ReadOK(g)'
  <2>1. DOMAIN resp[g] = {}
    BY DEF Inv, ReadsSeeConfirmed, ReadOK
  <2>2. ackedBefore'[g] = Acked /\ Acked' = Acked /\ getPc'[g] = "gather"
    BY DEF Inv, TypeOK, Acked
  <2> QED BY <2>1, <2>2 DEF ReadOK
<1> QED BY <1>2, <1>3 DEF ReadsSeeConfirmed

LEMMA ReadValueReads ==
  ASSUME Inv, NEW g \in Get, NEW s \in Slot, ReadValue(g, s)
  PROVE  ReadsSeeConfirmed'
<1> USE DEF ReadValue, nodeVars, putVars, history
<1> DEFINE n == GetNode(g, s)
<1>1. StepFacts
  BY ReadStepFacts
<1>2. ASSUME NEW h \in Get, h # g
      PROVE  ReadOK(h)'
  BY <1>1, <1>2, OtherRead DEF Inv, TypeOK
<1>3. ReadOK(g)'
  <2>1. ReadOK(g)
    BY DEF Inv, ReadsSeeConfirmed
  <2>2. /\ DOMAIN resp'[g] = DOMAIN resp[g] \cup {n}
        /\ \A m \in DOMAIN resp'[g] :
             resp'[g][m] = IF m = n THEN store[m] ELSE resp[g][m]
    BY DEF Inv, TypeOK, WithResponse
  <2>3. /\ \A p \in Put : Confirmed(p)' = Confirmed(p)
        /\ \A p \in Put : PutClock(p)' = PutClock(p)
        /\ Acked' = Acked
        /\ \A t \in Slot : GetNode(g, t)' = GetNode(g, t)
    BY DEF Confirmed, OkSlots, PutNode, PutClock, Acked, GetNode
  <2>4. ackedBefore[g] \subseteq Acked /\ Acked \subseteq Put
    BY <2>1 DEF ReadOK, Acked
  <2>5. ASSUME n \notin overwritten, NEW p \in ackedBefore[g], n \in Confirmed(p)
        PROVE  Leq(PutClock(p), store[n].vc)
    BY <2>4, <2>5 DEF Inv, ConfirmedIsHeld, Confirmed
  <2>6. ASSUME NEW m \in DOMAIN resp'[g]
        PROVE  /\ getPc'[g] # "idle"
               /\ \E t \in Slot : m = GetNode(g, t)'
               /\ m \notin overwritten' =>
                    \A p \in ackedBefore'[g] :
                      m \in Confirmed(p)' => Leq(PutClock(p)', resp'[g][m].vc)
    <3>1. CASE m = n
      BY <2>2, <2>3, <2>4, <2>5, <3>1
    <3>2. CASE m # n
      BY <2>1, <2>2, <2>3, <2>4, <3>2 DEF ReadOK
    <3> QED BY <3>1, <3>2
  <2> QED BY <2>3, <2>4, <2>6 DEF ReadOK
<1> QED BY <1>2, <1>3 DEF ReadsSeeConfirmed

LEMMA ReadNothingReads ==
  ASSUME Inv, NEW g \in Get, NEW s \in Slot, ReadNothing(g, s)
  PROVE  ReadsSeeConfirmed'
<1>1. StepFacts
  BY ReadStepFacts DEF ReadNothing, nodeVars, putVars, history
<1> QED BY <1>1, OtherRead DEF ReadNothing, history, ReadsSeeConfirmed

LEMMA ReadQuorumMetReads ==
  ASSUME Inv, NEW g \in Get, ReadQuorumMet(g)
  PROVE  ReadsSeeConfirmed'
<1> USE DEF ReadQuorumMet, nodeVars, putVars, history
<1>1. StepFacts
  BY ReadStepFacts
<1>2. ASSUME NEW h \in Get, h # g
      PROVE  ReadOK(h)'
  BY <1>1, <1>2, OtherRead DEF Inv, TypeOK
<1>3. ReadOK(g)'
  <2>1. ReadOK(g)
    BY DEF Inv, ReadsSeeConfirmed
  <2>2. todo'[g] = DOMAIN resp[g] /\ getPc'[g] = "resolve"
    BY DEF Inv, TypeOK
  <2>3. /\ \A p \in Put : Confirmed(p)' = Confirmed(p)
        /\ \A p \in Put : PutClock(p)' = PutClock(p)
        /\ Acked' = Acked
        /\ \A t \in Slot : GetNode(g, t)' = GetNode(g, t)
    BY DEF Confirmed, OkSlots, PutNode, PutClock, Acked, GetNode
  <2>4. ackedBefore[g] \subseteq Put
    BY DEF Inv, TypeOK
  <2> QED BY <2>1, <2>2, <2>3, <2>4 DEF ReadOK
<1> QED BY <1>2, <1>3 DEF ReadsSeeConfirmed

LEMMA ReadQuorumMissedReads ==
  ASSUME Inv, NEW g \in Get, ReadQuorumMissed(g)
  PROVE  ReadsSeeConfirmed'
<1> USE DEF ReadQuorumMissed, nodeVars, putVars, history
<1>1. StepFacts
  BY ReadStepFacts
<1>2. ASSUME NEW h \in Get, h # g
      PROVE  ReadOK(h)'
  BY <1>1, <1>2, OtherRead DEF Inv, TypeOK
<1>3. ReadOK(g)'
  <2>1. ReadOK(g)
    BY DEF Inv, ReadsSeeConfirmed
  <2>2. getPc'[g] \in {"local", "failed"}
    BY DEF Inv, TypeOK
  <2>3. /\ \A p \in Put : Confirmed(p)' = Confirmed(p)
        /\ \A p \in Put : PutClock(p)' = PutClock(p)
        /\ Acked' = Acked
        /\ \A t \in Slot : GetNode(g, t)' = GetNode(g, t)
    BY DEF Confirmed, OkSlots, PutNode, PutClock, Acked, GetNode
  <2>4. ackedBefore[g] \subseteq Put
    BY DEF Inv, TypeOK
  <2> QED BY <2>1, <2>2, <2>3, <2>4 DEF ReadOK
<1> QED BY <1>2, <1>3 DEF ReadsSeeConfirmed

\* The turn of the loop covers the response it met and what it had covered.
LEMMA ResolveResponseReads ==
  ASSUME Inv, NEW g \in Get, NEW n \in Node, ResolveResponse(g, n)
  PROVE  ReadsSeeConfirmed'
<1> USE DEF ResolveResponse, nodeVars, putVars, history
<1>1. StepFacts
  BY ReadStepFacts
<1>2. ASSUME NEW h \in Get, h # g
      PROVE  ReadOK(h)'
  BY <1>1, <1>2, OtherRead DEF Inv, TypeOK
<1>3. ReadOK(g)'
  <2>1. ReadOK(g)
    BY DEF Inv, ReadsSeeConfirmed
  <2>2. PICK sv \in Resolved(cur[g], resp[g][n]) : cur' = [cur EXCEPT ![g] = sv]
    OBVIOUS
  <2>3. n \in DOMAIN resp[g]
    BY <2>1 DEF ReadOK
  <2>4. /\ cur[g] \in Version
        /\ \A m \in DOMAIN resp[g] : resp[g][m] \in Version
    BY DEF Inv, TypeOK
  <2>5. /\ sv \in Version
        /\ Leq(cur[g].vc, sv.vc)
        /\ Leq(resp[g][n].vc, sv.vc)
    BY <2>2, <2>3, <2>4, ResolvedDominates DEF Inv, VersionsOK, Blank
  <2>6. /\ cur'[g] = sv
        /\ todo'[g] = todo[g] \ {n}
        /\ getPc'[g] = "resolve"
    BY <2>2 DEF Inv, TypeOK
  <2>7. ASSUME NEW m \in DOMAIN resp[g] \ todo'[g]
        PROVE  Leq(resp[g][m].vc, cur'[g].vc)
    <3>1. CASE m = n
      BY <2>5, <2>6, <3>1
    <3>2. CASE m # n
      <4>1. Leq(resp[g][m].vc, cur[g].vc)
        BY <2>1, <2>6, <2>7, <3>2 DEF ReadOK
      <4>2. resp[g][m].vc \in Clock /\ cur[g].vc \in Clock /\ sv.vc \in Clock
        BY <2>4, <2>5, <2>7 DEF Version
      <4> QED BY <2>5, <2>6, <4>1, <4>2, LeqIsPartialOrder
    <3> QED BY <3>1, <3>2
  <2>8. /\ \A p \in Put : Confirmed(p)' = Confirmed(p)
        /\ \A p \in Put : PutClock(p)' = PutClock(p)
        /\ Acked' = Acked
        /\ \A t \in Slot : GetNode(g, t)' = GetNode(g, t)
    BY DEF Confirmed, OkSlots, PutNode, PutClock, Acked, GetNode
  <2>9. ackedBefore[g] \subseteq Put
    BY DEF Inv, TypeOK
  <2> QED BY <2>1, <2>6, <2>7, <2>8, <2>9 DEF ReadOK
<1> QED BY <1>2, <1>3 DEF ReadsSeeConfirmed

LEMMA GetReturnReads ==
  ASSUME Inv, NEW g \in Get, GetReturn(g)
  PROVE  ReadsSeeConfirmed'
<1> USE DEF GetReturn, nodeVars, putVars, history
<1>1. StepFacts
  BY ReadStepFacts
<1>2. ASSUME NEW h \in Get, h # g
      PROVE  ReadOK(h)'
  BY <1>1, <1>2, OtherRead DEF Inv, TypeOK
<1>3. ReadOK(g)'
  <2>1. ReadOK(g)
    BY DEF Inv, ReadsSeeConfirmed
  <2>2. getPc'[g] = "done" /\ getPc[g] = "resolve"
    BY DEF Inv, TypeOK
  <2>3. /\ \A p \in Put : Confirmed(p)' = Confirmed(p)
        /\ \A p \in Put : PutClock(p)' = PutClock(p)
        /\ Acked' = Acked
        /\ \A t \in Slot : GetNode(g, t)' = GetNode(g, t)
    BY DEF Confirmed, OkSlots, PutNode, PutClock, Acked, GetNode
  <2>4. ackedBefore[g] \subseteq Put
    BY DEF Inv, TypeOK
  <2> QED BY <2>1, <2>2, <2>3, <2>4 DEF ReadOK
<1> QED BY <1>2, <1>3 DEF ReadsSeeConfirmed

-----------------------------------------------------------------------------
(* The inductive step *)

LEMMA PutStepInv ==
  ASSUME Inv, NEW p \in Put, PutStep(p)
  PROVE  Inv' /\ StepFacts
<1>1. TypeOK' /\ RequestsOK' /\ VersionsOK'
  BY PutStartTypes, WriteHereTypes, DeliverWriteTypes, WriteAttemptFailsTypes,
     PutReturnTypes DEF PutStep
<1>2. StepFacts
  BY PutStartFacts, WriteHereFacts, DeliverWriteFacts, WriteAttemptFailsFacts,
     PutReturnFacts DEF PutStep
<1>3. ConfirmedIsHeld'
  BY <1>1, <1>2, HeldStep
<1>4. UNCHANGED <<getVars, history>>
  BY DEF PutStep, PutStart, WriteHere, DeliverWrite, WriteAttemptFails,
         PutReturn
<1>5. ReadsSeeConfirmed'
  BY <1>2, <1>4, OtherRead DEF ReadsSeeConfirmed, getVars, history
<1> QED BY <1>1, <1>2, <1>3, <1>5 DEF Inv

\* Every step of a read but the delivery of its repairs.
LEMMA GetStepFacts ==
  ASSUME Inv, NEW g \in Get, GetStep(g)
  PROVE  StepFacts
<1>1. CASE \E s \in Slot : DeliverRepair(g, s)
  BY <1>1, DeliverRepairFacts
<1>2. CASE ~ \E s \in Slot : DeliverRepair(g, s)
  <2>1. UNCHANGED <<store, overwritten, putPc, putReq, call>>
    BY <1>2 DEF GetStep, GetStart, ReadValue, ReadNothing, ReadQuorumMet,
                ReadQuorumMissed, ResolveResponse, GetReturn, nodeVars,
                putVars, history
  <2> QED BY <2>1, ReadStepFacts
<1> QED BY <1>1, <1>2

LEMMA GetStepInv ==
  ASSUME Inv, NEW g \in Get, GetStep(g)
  PROVE  Inv' /\ StepFacts
<1>1. TypeOK' /\ RequestsOK' /\ VersionsOK'
  BY GetStartTypes, ReadValueTypes, ReadNothingTypes, ReadQuorumMetTypes,
     ReadQuorumMissedTypes, ResolveResponseTypes, GetReturnTypes,
     DeliverRepairTypes DEF GetStep
<1>2. StepFacts
  BY GetStepFacts
<1>3. ConfirmedIsHeld'
  BY <1>1, <1>2, HeldStep
<1>4. ASSUME NEW s \in Slot, DeliverRepair(g, s)
      PROVE  ReadsSeeConfirmed'
  BY <1>2, <1>4, OtherRead DEF DeliverRepair, ReadsSeeConfirmed
<1>5. ReadsSeeConfirmed'
  BY <1>4, GetStartReads, ReadValueReads, ReadNothingReads,
     ReadQuorumMetReads, ReadQuorumMissedReads, ResolveResponseReads,
     GetReturnReads DEF GetStep
<1> QED BY <1>1, <1>2, <1>3, <1>5 DEF Inv

LEMMA RestartInv ==
  ASSUME Inv, NEW n \in MayRestart, Restart(n)
  PROVE  Inv' /\ StepFacts
<1>1. TypeOK' /\ RequestsOK' /\ VersionsOK' /\ StepFacts
  BY RestartTypes, RestartFacts
<1>2. ConfirmedIsHeld'
  BY <1>1, HeldStep
<1>3. ReadsSeeConfirmed'
  <2>1. \A h \in Get : getPc'[h] = getPc[h] \/ getPc'[h] = "crashed"
    BY DEF Restart, Inv, TypeOK
  <2> QED BY <1>1, <2>1, OtherRead DEF Restart, history, ReadsSeeConfirmed
<1> QED BY <1>1, <1>2, <1>3 DEF Inv

LEMMA NextInv ==
  ASSUME Inv, [Next]_vars
  PROVE  Inv' /\ StepFacts
<1>1. CASE Next
  BY <1>1, PutStepInv, GetStepInv, RestartInv DEF Next
<1>2. CASE UNCHANGED vars
  <2> USE <1>2 DEF vars, nodeVars, putVars, getVars, history
  <2>1. StepFacts
    BY SameStores, SameWrites DEF StepFacts, Acked
  <2>2. TypeOK'
    BY DEF Inv, TypeOK
  <2>3. RequestsOK'
    BY DEF Inv, RequestsOK, Started, OkSlots
  <2>4. VersionsOK'
    BY DEF Inv, VersionsOK, Blank
  <2>5. ConfirmedIsHeld'
    BY <2>1, <2>2, <2>3, HeldStep
  <2>6. ReadsSeeConfirmed'
    BY <2>1, OtherRead DEF ReadsSeeConfirmed
  <2> QED BY <2>1, <2>2, <2>3, <2>4, <2>5, <2>6 DEF Inv
<1> QED BY <1>1, <1>2

\* The invariant holds in every behaviour of quorum replication.
THEOREM Invariance == Spec => []Inv
<1>1. Init => Inv
  BY InitInv
<1>2. Inv /\ [Next]_vars => Inv'
  BY NextInv
<1> QED BY <1>1, <1>2, PTL DEF Spec

-----------------------------------------------------------------------------
(* What it gives *)

\* Type correctness: every Put, Get, message and version stays in its type.
THEOREM TypeCorrect == Spec => []TypeOK
<1>1. Inv => TypeOK
  BY DEF Inv
<1> QED BY <1>1, Invariance, PTL

\* A replica that confirmed an acknowledged write keeps knowing it until a
\* stale read repair overwrites it (node.go: Put, localPut, saveData).
THEOREM AckedWritesAreHeld == Spec => []AckedWriteHeld
<1>1. Inv => AckedWriteHeld
  BY DEF Inv, ConfirmedIsHeld, AckedWriteHeld, Acked, Confirmed
<1> QED BY <1>1, Invariance, PTL

\* A read's result dominates everything it gathered (node.go:
\* resolveConflicts), in whatever order the map is walked.
THEOREM ResultsCoverResponses == Spec => []ResultCoversResponses
<1>1. Inv => ResultCoversResponses
  BY DEF Inv, ReadsSeeConfirmed, ReadOK, ResultCoversResponses
<1> QED BY <1>1, Invariance, PTL

\* Writes, late or repeated, and restarts never take a replica back.
THEOREM OnlyRepairsRegress == Spec => ReplicasOnlyAdvance
<1>1. Inv /\ [Next]_vars =>
        [\A n \in Node : n \notin overwritten' => Leq(store[n].vc, store'[n].vc)]_vars
  BY NextInv DEF StepFacts
<1> QED BY <1>1, Invariance, PTL DEF Spec, ReplicasOnlyAdvance

-----------------------------------------------------------------------------
(* Quorums *)

\* The nodes at the places of a list that are in a set.
NodesAt(to, S) == {to[s] : s \in S}

\* What R + W > N silently takes for granted: all coordinators use the same
\* replicas for the key, each of them once.
OneReplicaSet ==
  /\ \A to \in NodeLists : \A s, t \in Slot : to[s] = to[t] => s = t
  /\ \A to, too \in NodeLists : NodesAt(to, Slot) = NodesAt(too, Slot)

\* A list without repetitions has as many nodes as places.
LEMMA NodesOfSlots ==
  ASSUME NEW to \in NodeLists, NEW S \in SUBSET Slot,
         \A s, t \in Slot : to[s] = to[t] => s = t
  PROVE  /\ IsFiniteSet(NodesAt(to, S))
         /\ Cardinality(NodesAt(to, S)) = Cardinality(S)
<1> DEFINE f == [s \in S |-> to[s]]
<1>1. IsFiniteSet(S)
  BY SlotsAreFinite, FS_Subset
<1>2. f \in Surjection(S, NodesAt(to, S))
  BY DEF Surjection, NodesAt
<1>3. f \in Injection(S, NodesAt(to, S))
  <2>1. \A s, t \in S : f[s] = f[t] => s = t
    OBVIOUS
  <2>2. f \in [S -> NodesAt(to, S)]
    BY DEF NodesAt
  <2> HIDE DEF f
  <2> QED BY <2>1, <2>2 DEF Injection, IsInjective
<1> HIDE DEF f
<1> QED BY <1>1, <1>2, <1>3, FS_Surjection

\* Two sets of nodes of a list that together outnumber its places share one.
LEMMA QuorumsMeet ==
  ASSUME NEW to \in NodeLists,
         \A s, t \in Slot : to[s] = to[t] => s = t,
         NEW A \in SUBSET NodesAt(to, Slot), NEW B \in SUBSET NodesAt(to, Slot),
         Cardinality(A) + Cardinality(B) > Cardinality(Slot)
  PROVE  A \cap B # {}
<1>1. /\ IsFiniteSet(NodesAt(to, Slot))
      /\ Cardinality(NodesAt(to, Slot)) = Cardinality(Slot)
  BY NodesOfSlots
<1>2. IsFiniteSet(A) /\ IsFiniteSet(B)
  BY <1>1, FS_Subset
<1>3. Cardinality(A \cup B) <= Cardinality(Slot)
  BY <1>1, FS_Subset
<1>4. Cardinality(A \cup B) = Cardinality(A) + Cardinality(B) - Cardinality(A \cap B)
  BY <1>2, FS_Union
<1>5. /\ Cardinality(A) \in Nat /\ Cardinality(B) \in Nat
      /\ Cardinality(Slot) \in Nat
  BY <1>2, SlotsAreFinite, FS_CardinalityType
<1>6. SUFFICES ASSUME A \cap B = {} PROVE FALSE
  OBVIOUS
<1>7. Cardinality(A \cap B) = 0
  BY <1>6, FS_EmptySet
<1> QED BY <1>3, <1>4, <1>5, <1>7

\* What the quorum tests and the invariant give: where all coordinators use one
\* replica set, a read and an acknowledged write have a node in common.
LEMMA QuorumReadFromInv ==
  ASSUME OneReplicaSet, ReadQuorum + WriteQuorum > Cardinality(Slot)
  PROVE  Inv => QuorumRead
<1> SUFFICES ASSUME Inv, NEW g \in Get, getPc[g] = "done", overwritten = {},
                    NEW p \in ackedBefore[g]
             PROVE  Leq(PutClock(p), cur[g].vc)
  BY DEF QuorumRead
<1> DEFINE A == DOMAIN resp[g]
<1>1. ReadOK(g)
  BY DEF Inv, ReadsSeeConfirmed
<1>2. p \in Acked /\ p \in Put /\ Started(p)
  BY <1>1 DEF ReadOK, Acked, Started
<1>3. putReq[p] \in PutRequest /\ getReq[g] \in GetRequest
  BY <1>2 DEF Inv, RequestsOK
<1>4. putReq[p].to \in NodeLists /\ getReq[g].to \in NodeLists
  BY <1>3 DEF PutRequest, GetRequest
<1>5. OkSlots(p) \subseteq Slot /\ Confirmed(p) = NodesAt(putReq[p].to, OkSlots(p))
  BY DEF OkSlots, Confirmed, PutNode, NodesAt
<1>6. Confirmed(p) \subseteq NodesAt(getReq[g].to, Slot)
  <2>1. Confirmed(p) \subseteq NodesAt(putReq[p].to, Slot)
    BY <1>5 DEF NodesAt
  <2> QED BY <1>4, <2>1 DEF OneReplicaSet
<1>7. A \subseteq NodesAt(getReq[g].to, Slot)
  BY <1>1 DEF ReadOK, GetNode, NodesAt
<1>8. /\ IsFiniteSet(Confirmed(p))
      /\ Cardinality(Confirmed(p)) = Cardinality(OkSlots(p))
  BY <1>4, <1>5, NodesOfSlots DEF OneReplicaSet
<1>9. Cardinality(Confirmed(p)) >= WriteQuorum
  BY <1>2, <1>8 DEF Inv, ConfirmedIsHeld
<1>10. Cardinality(A) >= ReadQuorum /\ todo[g] = {}
  BY <1>1 DEF ReadOK
<1>11. IsFiniteSet(NodesAt(getReq[g].to, Slot))
  BY <1>4, NodesOfSlots DEF OneReplicaSet
<1>12. /\ Cardinality(A) \in Nat /\ Cardinality(Confirmed(p)) \in Nat
       /\ Cardinality(Slot) \in Nat
  BY <1>7, <1>8, <1>11, SlotsAreFinite, FS_Subset, FS_CardinalityType
<1>13. Cardinality(A) + Cardinality(Confirmed(p)) > Cardinality(Slot)
  BY <1>9, <1>10, <1>12, QuorumsArePositive
<1>14. PICK n \in A : n \in Confirmed(p)
  <2>1. A \cap Confirmed(p) # {}
    BY <1>4, <1>6, <1>7, <1>13, QuorumsMeet DEF OneReplicaSet
  <2> QED BY <2>1
<1>15. Leq(PutClock(p), resp[g][n].vc)
  BY <1>1, <1>14 DEF ReadOK
<1>16. Leq(resp[g][n].vc, cur[g].vc)
  BY <1>1, <1>10, <1>14 DEF ReadOK
<1>17. /\ PutClock(p) \in Clock
       /\ resp[g][n].vc \in Clock
       /\ cur[g].vc \in Clock
  BY <1>3, <1>14 DEF Inv, TypeOK, Version, PutRequest, PutClock
<1> QED BY <1>15, <1>16, <1>17, LeqIsPartialOrder

\* R + W > N: a quorum read returns a version that knows every write that was
\* acknowledged before it began, if all coordinators use one replica set and
\* no stale repair has struck (config.go: ValidateConfig; node.go: Get, Put).
THEOREM QuorumReads ==
  ASSUME OneReplicaSet, ReadQuorum + WriteQuorum > Cardinality(Slot)
  PROVE  Spec => []QuorumRead
<1>1. Inv => QuorumRead
  BY QuorumReadFromInv
<1> QED BY <1>1, Invariance, PTL
=============================================================================
