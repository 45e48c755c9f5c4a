---------------------------- MODULE Replication ----------------------------
(* Quorum writes and reads of one key (Put, Get and everything they call in  *)
(* node.go, with the PutLocal, GetLocal and RepairKey handlers of            *)
(* grpc_transport.go and the snapshots of node_persist.go).                  *)
(*                                                                           *)
(* A request is sent to a list of nodes, one goroutine per place (Slot) of   *)
(* the list; the same node may stand at two places.  Which lists             *)
(* determineResponsibleNodes may return is the constant NodeLists.  A write  *)
(* call is a message that can stay in flight for ever (lost), be executed    *)
(* after its caller has given up (late), or have its reply lost.  Hints and  *)
(* anti-entropy are not part of this module.                                 *)
EXTENDS StoredValue, FiniteSets

CONSTANTS
  Get,             \* the client reads
  Slot,            \* places of a list of responsible nodes
  NodeLists,       \* lists getResponsibleNodes may return
  ReadQuorum, WriteQuorum,
  MaxAttempts,     \* maxRetryAttempts
  MayRestart       \* bound: the nodes that may stop and start again

ASSUME ListsOfNodes == NodeLists \subseteq [Slot -> Node]
ASSUME SlotsAreFinite == IsFiniteSet(Slot)
ASSUME QuorumsArePositive ==
  ReadQuorum \in Nat \ {0} /\ WriteQuorum \in Nat \ {0}
ASSUME SomeAttempts == MaxAttempts \in Nat \ {0}
ASSUME NodesMayRestart == MayRestart \subseteq Node

VARIABLES
  store,       \* DataStore[key] of every node
  disk,        \* the same in the node's snapshot file
  putPc,       \* where each Put stands
  putReq,      \* its coordinator, node list and clock, None before it starts
  call,        \* its goroutine for each place of the list
  tries,       \* how many attempts that goroutine has made
  writes,      \* PutLocal requests in flight: <<put, slot, attempt>>
  getPc,       \* where each Get stands
  getReq,      \* its coordinator and node list, None before it starts
  pend,        \* places of its list not answered yet
  resp,        \* the responses map
  todo,        \* responses resolveConflicts has not met yet
  cur,         \* current, in the end the result
  conflicted,  \* conflictCount > 0
  repairs,     \* places of its list with a RepairKey request in flight
  overwritten, \* history: nodes where a repair replaced a version that it
               \* did not dominate
  ackedBefore  \* history: the writes acknowledged when the Get started

nodeVars == <<store, disk>>
putVars  == <<putPc, putReq, call, tries, writes>>
getVars  == <<getPc, getReq, pend, resp, todo, cur, conflicted, repairs>>
history  == <<overwritten, ackedBefore>>
vars     == <<nodeVars, putVars, getVars, history>>

PutRequest == [at : Node, to : NodeLists, vc : Clock]
GetRequest == [at : Node, to : NodeLists]

TypeOK ==
  /\ store \in [Node -> Version]
  /\ disk \in [Node -> Version]
  /\ putPc \in [Put -> {"idle", "running", "acked", "failed", "crashed"}]
  /\ putReq \in [Put -> PutRequest \cup {None}]
  /\ call \in [Put -> [Slot -> {"wait", "ok", "failed"}]]
  /\ tries \in [Put -> [Slot -> 1..MaxAttempts]]
  /\ writes \subseteq Put \X Slot \X (1..MaxAttempts)
  /\ getPc \in [Get -> {"idle", "gather", "resolve", "done", "local",
                        "failed", "crashed"}]
  /\ getReq \in [Get -> GetRequest \cup {None}]
  /\ pend \in [Get -> SUBSET Slot]
  /\ DOMAIN resp = Get
  /\ \A g \in Get : /\ DOMAIN resp[g] \subseteq Node
                    /\ \A n \in DOMAIN resp[g] : resp[g][n] \in Version
  /\ todo \in [Get -> SUBSET Node]
  /\ cur \in [Get -> Version]
  /\ conflicted \in [Get -> BOOLEAN]
  /\ repairs \in [Get -> SUBSET Slot]
  /\ overwritten \subseteq Node
  /\ ackedBefore \in [Get -> SUBSET Put]

Init ==
  /\ store = [n \in Node |-> Absent]
  /\ disk = [n \in Node |-> Absent]
  /\ putPc = [p \in Put |-> "idle"]
  /\ putReq = [p \in Put |-> None]
  /\ call = [p \in Put |-> [s \in Slot |-> "wait"]]
  /\ tries = [p \in Put |-> [s \in Slot |-> 1]]
  /\ writes = {}
  /\ getPc = [g \in Get |-> "idle"]
  /\ getReq = [g \in Get |-> None]
  /\ pend = [g \in Get |-> {}]
  /\ resp = [g \in Get |-> [n \in {} |-> Absent]]
  /\ todo = [g \in Get |-> {}]
  /\ cur = [g \in Get |-> Absent]
  /\ conflicted = [g \in Get |-> FALSE]
  /\ repairs = [g \in Get |-> {}]
  /\ overwritten = {}
  /\ ackedBefore = [g \in Get |-> {}]

Started(p) == putPc[p] # "idle"
PutNode(p, s) == putReq[p].to[s]
GetNode(g, s) == getReq[g].to[s]
Acked == {p \in Put : putPc[p] = "acked"}

-----------------------------------------------------------------------------
(* Writes *)

\* The clock is read under the lock and handed to the request; the store
\* keeps what it had.
updateLocalVectorClock(n) == Increment(store[n].vc, n)

\* Mutant: the snapshot is forgotten.
SaveInMemory(n, sv) ==
  /\ store' = [store EXCEPT ![n] = sv]
  /\ UNCHANGED disk

\* The node's store and its snapshot after version sv is in place.
Save(n, sv) ==
  /\ store' = [store EXCEPT ![n] = sv]
  /\ disk' = [disk EXCEPT ![n] = sv]

RemoteSlots(n, to) == {s \in Slot : to[s] # n}

\* Put up to the start of replicateWrite's goroutines.
PutStart(p, n, to) ==
  /\ putPc[p] = "idle"
  /\ putPc' = [putPc EXCEPT ![p] = "running"]
  /\ putReq' = [putReq EXCEPT ![p] =
                  [at |-> n, to |-> to, vc |-> updateLocalVectorClock(n)]]
  /\ writes' = writes \cup {<<p, s, 1>> : s \in RemoteSlots(n, to)}
  /\ UNCHANGED <<nodeVars, call, tries, getVars, history>>

\* writeToNode at a place where the coordinator itself stands.
WriteHere(p, s) ==
  LET n == putReq[p].at IN
  /\ putPc[p] = "running"
  /\ call[p][s] = "wait"
  /\ PutNode(p, s) = n
  /\ Save(n, localPut(store[n], p, putReq[p].vc))
  /\ call' = [call EXCEPT ![p][s] = "ok"]
  /\ UNCHANGED <<putPc, putReq, tries, writes, getVars, history>>

\* The PutLocal handler.  The reply counts for the attempt still waited for,
\* unless it is lost.
DeliverWrite(p, s, k) ==
  LET n == PutNode(p, s) IN
  /\ <<p, s, k>> \in writes
  /\ writes' = writes \ {<<p, s, k>>}
  /\ Save(n, applyReplicaWrite(n, store[n], Written(p, putReq[p].vc), FALSE))
  /\ \/ /\ putPc[p] = "running" /\ call[p][s] = "wait" /\ tries[p][s] = k
        /\ call' = [call EXCEPT ![p][s] = "ok"]
     \/ UNCHANGED call
  /\ UNCHANGED <<putPc, putReq, tries, getVars, history>>

\* Mutant: one attempt too many, and then nobody reports the failure.
WriteAttemptFailsOneMore(p, s) ==
  /\ putPc[p] = "running"
  /\ call[p][s] = "wait"
  /\ PutNode(p, s) # putReq[p].at
  /\ tries[p][s] <= MaxAttempts
  /\ tries' = [tries EXCEPT ![p][s] = @ + 1]
  /\ writes' = writes \cup {<<p, s, tries[p][s] + 1>>}
  /\ UNCHANGED <<nodeVars, putPc, putReq, call, getVars, history>>

\* remotePut fails (deadline, connection); remotePutWithRetry goes on.
WriteAttemptFails(p, s) ==
  /\ putPc[p] = "running"
  /\ call[p][s] = "wait"
  /\ PutNode(p, s) # putReq[p].at
  /\ \/ /\ tries[p][s] < MaxAttempts
        /\ tries' = [tries EXCEPT ![p][s] = @ + 1]
        /\ writes' = writes \cup {<<p, s, tries[p][s] + 1>>}
        /\ UNCHANGED call
     \/ /\ tries[p][s] = MaxAttempts
        /\ call' = [call EXCEPT ![p][s] = "failed"]
        /\ UNCHANGED <<tries, writes>>
  /\ UNCHANGED <<nodeVars, putPc, putReq, getVars, history>>

OkSlots(p) == {s \in Slot : call[p][s] = "ok"}

\* wg.Wait, then the count of successes.
PutReturn(p) ==
  /\ putPc[p] = "running"
  /\ \A s \in Slot : call[p][s] # "wait"
  /\ putPc' = [putPc EXCEPT ![p] =
       IF Cardinality(OkSlots(p)) < WriteQuorum THEN "failed" ELSE "acked"]
  /\ UNCHANGED <<nodeVars, putReq, call, tries, writes, getVars, history>>

-----------------------------------------------------------------------------
(* Reads *)

GetStart(g, n, to) ==
  /\ getPc[g] = "idle"
  /\ getPc' = [getPc EXCEPT ![g] = "gather"]
  /\ getReq' = [getReq EXCEPT ![g] = [at |-> n, to |-> to]]
  /\ pend' = [pend EXCEPT ![g] = Slot]
  /\ ackedBefore' = [ackedBefore EXCEPT ![g] = Acked]
  /\ UNCHANGED <<nodeVars, putVars, resp, todo, cur, conflicted, repairs,
                 overwritten>>

WithResponse(rs, n, sv) ==
  [m \in DOMAIN rs \cup {n} |-> IF m = n THEN sv ELSE rs[m]]

\* retrieveValue finds a value at the node of place s.
ReadValue(g, s) ==
  LET n == GetNode(g, s) IN
  /\ getPc[g] = "gather" /\ s \in pend[g]
  /\ store[n].val # None
  /\ resp' = [resp EXCEPT ![g] = WithResponse(@, n, store[n])]
  /\ pend' = [pend EXCEPT ![g] = @ \ {s}]
  /\ UNCHANGED <<nodeVars, putVars, getPc, getReq, todo, cur, conflicted,
                 repairs, history>>

\* Mutant: a remote read that never gives up.
ReadNothingStored(g, s) ==
  /\ getPc[g] = "gather" /\ s \in pend[g]
  /\ store[GetNode(g, s)].val = None
  /\ pend' = [pend EXCEPT ![g] = @ \ {s}]
  /\ GetNode(g, s) = getReq[g].at
  /\ UNCHANGED <<nodeVars, putVars, getPc, getReq, resp, todo, cur,
                 conflicted, repairs, history>>

\* retrieveValue returns nil: nothing is stored, or every attempt at a remote
\* node has failed.
ReadNothing(g, s) ==
  LET n == GetNode(g, s) IN
  /\ getPc[g] = "gather" /\ s \in pend[g]
  /\ n # getReq[g].at \/ store[n].val = None
  /\ pend' = [pend EXCEPT ![g] = @ \ {s}]
  /\ UNCHANGED <<nodeVars, putVars, getPc, getReq, resp, todo, cur,
                 conflicted, repairs, history>>

\* Mutant: one answer too few is taken for a quorum.
ReadQuorumAlmostMet(g) ==
  /\ getPc[g] = "gather" /\ pend[g] = {}
  /\ Cardinality(DOMAIN resp[g]) >= ReadQuorum - 1
  /\ getPc' = [getPc EXCEPT ![g] = "resolve"]
  /\ todo' = [todo EXCEPT ![g] = DOMAIN resp[g]]
  /\ UNCHANGED <<nodeVars, putVars, getReq, pend, resp, cur, conflicted,
                 repairs, history>>

\* Enough nodes have answered: resolveConflicts starts.
ReadQuorumMet(g) ==
  /\ getPc[g] = "gather" /\ pend[g] = {}
  /\ Cardinality(DOMAIN resp[g]) >= ReadQuorum
  /\ getPc' = [getPc EXCEPT ![g] = "resolve"]
  /\ todo' = [todo EXCEPT ![g] = DOMAIN resp[g]]
  /\ UNCHANGED <<nodeVars, putVars, getReq, pend, resp, cur, conflicted,
                 repairs, history>>

\* Too few have: the local copy is returned whatever it is worth, or an error.
ReadQuorumMissed(g) ==
  LET mine == store[getReq[g].at] IN
  /\ getPc[g] = "gather" /\ pend[g] = {}
  /\ Cardinality(DOMAIN resp[g]) < ReadQuorum
  /\ \/ /\ mine.val # None
        /\ getPc' = [getPc EXCEPT ![g] = "local"]
        /\ cur' = [cur EXCEPT ![g] = mine]
     \/ /\ mine.val = None
        /\ getPc' = [getPc EXCEPT ![g] = "failed"]
        /\ UNCHANGED cur
  /\ UNCHANGED <<nodeVars, putVars, getReq, pend, resp, todo, conflicted,
                 repairs, history>>

\* Mutant: a newer response does not replace the current one.
ResolveFirstWins(g, n) ==
  /\ getPc[g] = "resolve" /\ n \in todo[g]
  /\ cur' = [cur EXCEPT ![g] = IF @.val = None THEN resp[g][n] ELSE @]
  /\ todo' = [todo EXCEPT ![g] = @ \ {n}]
  /\ UNCHANGED <<nodeVars, putVars, getPc, getReq, pend, resp, conflicted,
                 repairs, history>>

\* One turn of resolveConflicts' loop over the map, in any order.
ResolveResponse(g, n) ==
  /\ getPc[g] = "resolve" /\ n \in todo[g]
  /\ \E sv \in Resolved(cur[g], resp[g][n]) : cur' = [cur EXCEPT ![g] = sv]
  /\ conflicted' = [conflicted EXCEPT ![g] =
                      @ \/ CountsAsConflict(cur[g], resp[g][n])]
  /\ todo' = [todo EXCEPT ![g] = @ \ {n}]
  /\ UNCHANGED <<nodeVars, putVars, getPc, getReq, pend, resp, repairs,
                 history>>

\* The result goes to the client and, in the background, to every other node
\* of the list (performReadRepairs).
GetReturn(g) ==
  /\ getPc[g] = "resolve" /\ todo[g] = {}
  /\ getPc' = [getPc EXCEPT ![g] = "done"]
  /\ repairs' = [repairs EXCEPT ![g] = RemoteSlots(getReq[g].at, getReq[g].to)]
  /\ UNCHANGED <<nodeVars, putVars, getReq, pend, resp, todo, cur, conflicted,
                 history>>

\* The RepairKey handler.
DeliverRepair(g, s) ==
  LET n == GetNode(g, s) IN
  /\ s \in repairs[g]
  /\ repairs' = [repairs EXCEPT ![g] = @ \ {s}]
  /\ Save(n, storeReplicaValue(store[n], cur[g]))
  /\ overwritten' = IF Leq(store[n].vc, cur[g].vc)
                    THEN overwritten ELSE overwritten \cup {n}
  /\ UNCHANGED <<putVars, getPc, getReq, pend, resp, todo, cur, conflicted,
                 ackedBefore>>

-----------------------------------------------------------------------------
(* A node stops and starts again: loadData, and the requests it was
   coordinating are gone. *)
Restart(n) ==
  /\ store' = [store EXCEPT ![n] = disk[n]]
  /\ putPc' = [p \in Put |->
       IF putPc[p] = "running" /\ putReq[p].at = n THEN "crashed"
       ELSE putPc[p]]
  /\ getPc' = [g \in Get |->
       IF getPc[g] \in {"gather", "resolve"} /\ getReq[g].at = n
       THEN "crashed" ELSE getPc[g]]
  /\ UNCHANGED <<disk, putReq, call, tries, writes, getReq, pend, resp, todo,
                 cur, conflicted, repairs, history>>

-----------------------------------------------------------------------------
PutStep(p) ==
  \/ \E n \in Node, to \in NodeLists : PutStart(p, n, to)
  \/ \E s \in Slot : WriteHere(p, s) \/ WriteAttemptFails(p, s)
  \/ \E s \in Slot, k \in 1..MaxAttempts : DeliverWrite(p, s, k)
  \/ PutReturn(p)

GetStep(g) ==
  \/ \E n \in Node, to \in NodeLists : GetStart(g, n, to)
  \/ \E s \in Slot : ReadValue(g, s) \/ ReadNothing(g, s)
  \/ ReadQuorumMet(g)
  \/ ReadQuorumMissed(g)
  \/ \E n \in Node : ResolveResponse(g, n)
  \/ GetReturn(g)
  \/ \E s \in Slot : DeliverRepair(g, s)

Next ==
  \/ \E p \in Put : PutStep(p)
  \/ \E g \in Get : GetStep(g)
  \/ \E n \in MayRestart : Restart(n)

Spec == Init /\ [][Next]_vars

\* Every goroutine of a request goes on by itself: a local call returns, a
\* remote one at the latest at its deadline.  Nothing is promised for the
\* requests in flight, nor for a client to send one.
Fairness ==
  /\ \A p \in Put : \A s \in Slot :
       WF_vars(WriteHere(p, s) \/ WriteAttemptFails(p, s))
  /\ \A p \in Put : WF_vars(PutReturn(p))
  /\ \A g \in Get : \A s \in Slot :
       WF_vars(ReadValue(g, s) \/ ReadNothing(g, s))
  /\ \A g \in Get :
       WF_vars(ReadQuorumMet(g) \/ ReadQuorumMissed(g) \/ GetReturn(g)
               \/ \E n \in Node : ResolveResponse(g, n))

FairSpec == Spec /\ Fairness
=============================================================================
