# Verification of the Dynamo-style store

TLA+ models of the key-value store in `src/backend`, checked with TLC, with
theorems checked by TLAPS. Every definition is translated from the Go code; the
`map` of `PROJECT.json` gives the lines.

## 1. The system

A node is one Go process. It serves clients over HTTP, talks to the other nodes
over gRPC, keeps its data in a map and writes the whole map to a JSON snapshot
after every change.

| Component | Source | State | Operations | Should guarantee |
|---|---|---|---|---|
| Vector clocks | `vector_clock.go`, `node.go:385` | none | `Increment`, `Merge`, `Compare`, `compareVectorClocks`, ... | merge is the join, comparison is the causal order |
| Replica store | `node.go`, `node_persist.go` | `DataStore`, snapshot | `localPut`, `storeReplicaValue`, `localGet`, `saveData`, `loadData` | never forgets an acknowledged write, keeps siblings |
| Coordinator, writes | `node.go:149-330` | per request: clock, node list, goroutines | `Put`, `replicateWrite`, `remotePutWithRetry` | success means W replicas hold the write |
| Coordinator, reads | `node.go:102-147, 422-486, 622-734` | per request: responses, result | `Get`, `resolveConflicts`, `mergeConflicts`, read repair | a quorum read sees acknowledged writes and loses no sibling |
| Responsible nodes | `node.go:175-253` | none of its own; reads ring and statuses | `determineResponsibleNodes` | N distinct nodes while so many are available |
| Hinted handoff | `node.go:928-1171, 1228-1277` | `Hints[target]`, in memory | `storeHint`, `processHints`, `forceReconnectHints`, `deliverHint` | a hint stays until delivered, and is delivered once the target is back |
| Hash ring | `consistent_hash.go` | virtual nodes | `AddNode`, `RemoveNode`, `GetNode` | every process finds the same owner of a key; a join moves only what the joiner takes |
| Anti-entropy | `node.go:488-578, 772-832`, `merkle_tree.go`, `main.go:202-234` | per round: bucket, keys, both versions; Merkle trees, built on demand | `performMerkleSyncWithNode`, `reconcileKeyWithNode`, `CompareTrees` | replicas converge, no sibling is dropped, nothing that was read is taken back |
| Gossip | `gossip.go` | member list: heartbeat, status, last seen | `sendGossip`, `updateMember`, `checkMemberStatuses` | dead nodes are noticed and stay so, live ones come back |
| Transport | `grpc_transport.go` | client cache | handlers, conversions | conversions lose nothing |
| Statistics | `stats.go` | counters | recorders | counters add up |
| Configuration | `config.go` | none | `ValidateConfig` | R + W > N |
| HTTP and wiring | `main.go` | none | handlers, start-up | - |

How they interact. `Put` reads a clock from the replica store, asks for the
responsible nodes (which asks gossip for statuses), and starts one goroutine for
each; a remote one calls the `PutLocal` handler, retries after a timeout, and
cannot take back a request that was sent. `Get` collects versions the same way,
resolves them, answers, and only then sends its result to the other replicas with
`RepairKey`. Hints are stored after a successful write that used replacements; a
ticker and a goroutine started by gossip deliver them as forced writes. Anti-
entropy compares Merkle trees and writes the winner to either side.

What is hard. All of it runs concurrently on one lock per node that is never held
across a call: clocks, versions, hints and statuses are read, the lock is
released, and what was read is used later. Requests time out and still arrive.
Nodes restart from snapshots. Map iteration order decides replica lists and the
order of merges. Rounds of anti-entropy overlap, and goroutines that send gossip
hold records that others replace. `PROJECT.json` lists these hazards by line.

## 2. The modules

| Module | Models |
|---|---|
| `VectorClock` | the clock operations; a clock is a function on all nodes, 0 where the Go map has no entry (`Increment` never leaves a 0) |
| `StoredValue` | versions and what is done to them: `localPut`, `applyReplicaWrite`, `storeReplicaValue`, `resolveConflicts`' turn, `mergeConflicts` |
| `Replication` | quorum writes and reads of one key, with the PutLocal, GetLocal and RepairKey handlers, retries, timeouts, snapshots and restarts |
| `ReplicationProperties` | what replication promises; the inductive invariant |
| `QuorumStore`, `ReplicationRefinement` | the store a client sees, without replicas and messages, and the mapping under which `Replication` implements it |
| `MerkleTree`, `AntiEntropy` | the trees; rounds of anti-entropy beside writes and hints |
| `Gossip` | heartbeats, hearsay, failure detection, crashes and restarts |
| `HashRing` | the ring of virtual nodes |
| `Responsibility` | `getResponsibleNodes`, beside gossip |
| `HintedHandoff` | the hint buffer for one target and its two kinds of delivery |
| `MCReplication`, `MCResponsibility`, `MCHintedHandoff`, `MCAntiEntropy`, `MCGossip` | instances for TLC |
| `Lists` | picking from a list and sorting one |
| `VersionTheorems`, `DataTheorems` | facts about clocks and versions, and about lists and trees, that several proofs use |
| `ReplicationProofs`, `ClientProofs`, `HintProofs`, `SyncProofs`, `GossipProofs`, `ResponsibilityProofs` | the proofs |

`VectorClock` is extended by `StoredValue`, that by `Replication` and by
`AntiEntropy`, which also extends `MerkleTree`. `AntiEntropy` composes replicas with
the delivery of hints and with read-repair-like late requests. `Responsibility`
extends `HashRing`, takes the primary for fixed, which `OnePrimary` justifies, and lets
statuses change at will, which is more than `Gossip` can do; `HintedHandoff` does the same with
its target's status. `NodeLists` of `Replication` is what `Responsibility` returns.

### Replication

State against code: `store` and `disk` are `DataStore[key]` and the snapshot of
each node; `putPc`, `putReq`, `call`, `tries` are the local variables of a `Put` and
its goroutines, `writes` its PutLocal requests in flight; `getPc`, `getReq`, `pend`,
`resp`, `todo`, `cur`, `conflicted` those of a `Get`, `repairs` its RepairKey requests.
`overwritten` and `ackedBefore` are history.

| Action | Code |
|---|---|
| `PutStart` | `Put` to the start of the goroutines; `updateLocalVectorClock` |
| `WriteHere` | `writeToNode` at the coordinator: `localPut`, `saveData` |
| `DeliverWrite` | the PutLocal handler, whenever it runs; its reply may be lost |
| `WriteAttemptFails` | `remotePut` failing, and the retry or the end of retries |
| `PutReturn` | `wg.Wait` and the count of successes |
| `GetStart`, `ReadValue`, `ReadNothing` | `Get`, `gatherResponses`, `retrieveValue` |
| `ReadQuorumMet`, `ReadQuorumMissed` | the quorum test and the local fallback |
| `ResolveResponse` | one turn of `resolveConflicts`, in any map order |
| `GetReturn`, `DeliverRepair` | the answer, `performReadRepairs`, the RepairKey handler |
| `Restart` | a crash and `loadData` |

A request in flight is never forced to arrive: staying for ever is being lost.
Each attempt of a write is a request of its own, so a late one and its retry may
both be executed, in any order and after anything else.

Abstractions. One key: nothing in these paths relates two keys. A value is the
write that carries it. `Timestamp` is the wall clock of whoever stored the version,
so either of two concurrent versions may be primary. Conflict lists are sets of
the versions found at any depth. Null values and disk errors are left out, and so
is the second local read of `GetHandler`. `NodeLists` is what
`getResponsibleNodes` may return; `Responsibility` shows what that can be.

`QuorumStore` keeps only what a client can tell: where each request stands, and
what an answer misses of the writes acknowledged before it. A step of `Replication`
is one of its steps or a stutter: gathering, resolving, retrying and delivering
are invisible, and a repair is visible only when it strikes.

### AntiEntropy and MerkleTree

`round[r]` holds the local variables of one call of `performMerkleSyncWithNode`;
two rounds may run at one node. The writes beside it are shortened to what reaches
a replica: `Write` takes the clock, and `DeliverWrite` and `DeliverHint` are the
PutLocal handler, plain and forced. Whether enough replicas answer is no matter here.

| Action | Code |
|---|---|
| `BeginSync` | `startAntiEntropy`, `performAntiEntropy`, to the local tree of the first bucket |
| `FetchMerkleTree`, `FetchFails` | `fetchMerkleTree`, the GetMerkleBucket handler, `CompareTrees` |
| `ReadMine`, `ReadTheirs` | the two reads of `reconcileKeyWithNode`; a remote one that fails looks like a missing key |
| `NothingToReconcile`, `TakeTheirs`, `SendMine`, `MergeBoth` | its four cases |
| `RepairArrives`, `RepairTimesOut`, `RepairArrivesLate` | `repairNode` and the RepairKey handler; a request given up may still arrive |
| `Calm` | no code: clients stop and the network is whole, the premise of convergence |

The end of one key, of a bucket and of the round (`NextKey`, `NextBucket`) belongs
to the action that reaches it. SHA-256 is taken for injective: a hash is the tuple of
what went into it. Conflict lists are sets, while the code hashes them in their order:
`FetchMerkleTree` may therefore name keys whose versions are alike but for that order.

### Gossip

`view[n]` is the member list of n; `LastSeen` is an age in ticks of the check's three
seconds, capped where no test can tell any more. A goroutine of `sendGossip` holds a
pointer to its target's record: `target` is `Current`, or, once the end of another send
has put a new record in its place, the copy only the goroutine still sees.

| Action | Code |
|---|---|
| `Send` | `gossipLoop`'s tick, `selectGossipTargets`, the message |
| `SendArrives` | the ExchangeGossip handler (`processGossipPayload`, `updateMember`), then either `sendGossipToNode`'s revival of the target or a lost answer |
| `SendFails` | five failed attempts: the target's record stored as suspected |
| `incrementHeartbeat`, `checkMemberStatuses` | the same |
| `Tick` | three seconds pass for everybody; it waits for the check that the second before it must have seen |
| `Stop`, `Start` | a crash with all its goroutines, and a fresh list |

Clocks are taken for synchronous: `LastSeen` is sent as a time of day. Membership is
the configuration, so no record of an unknown node arises.

### HashRing, Responsibility, HintedHandoff

`HashRing` is a module of operators, one for each method, on a sorted sequence of
hashes and the map to their owners; its constants other than `NoNode` only say for
which members, hashes, orders and keys the two properties are stated, as do those of
`MerkleTree` for its one. `Lists` defines what is picked from a list, and a sorted
list, by the places where entries end up: the library's `SelectSeq` and `SortSeq` are
recursive in what the prover knows of them. `Responsibility` has one action for each turn and
each status read of `determineResponsibleNodes` (`TakeReplica`, `SeekReplacement`,
`TakeReplacement`, `SkipCandidate`, `KeepUnavailable`, `TryAgain`, ...) and
`StatusChanges` for gossip. In `HintedHandoff`, `storeHint` rotates the buffer, the
ticker works on a copy (`CopyHints`, `HintDelivered`, `AttemptFails`,
`TickerEndsRound`), a reconnecting goroutine edits the list in place
(`ReconnectRemoves`), and `Restart` empties it: it is in memory only.

## 3. What is checked

| Run | Instance | Shows |
|---|---|---|
| `MCWrites` | 3 coordinators, 2 replicas, 3 writes, restarts | acknowledged writes, siblings and clocks survive three-way races |
| `MCReads` | 3 coordinators, 2 replicas, 2 writes, 1 read with repairs, restarts | what a quorum read promises; only stale repairs take a replica back; the whole implements `QuorumStore` |
| `MCRetries` | 2 writes, 2 attempts each | late and repeated requests bring nothing back |
| `MCAnswers` | 1 write, 1 read, 2 attempts, fairness | every request is answered or its coordinator crashes |
| `MCHints` | 3 hints, 2 keys, buffer of 2, ticker and one reconnect, 2 attempts, restarts | hints go only after a delivery of their key or with their node, and the buffer drains |
| `MCSloppy` | rings of 5 and of 2 nodes, N = 3, 2 passes; hash rings of 3 nodes with 2 virtual nodes each, all 90 placements | what a walk with changing statuses may and may not return; all processes agree on primaries, joins move little |
| `MCSync` | 2 replicas, 1 key in the first of 2 buckets, 2 writes, 1 hint, 1 round at each, late repairs of one; trees over 4 keys | what rounds that lock nothing preserve; convergence |
| `MCGossip` | two nodes that watch each other; one with two sends to the same target; three, one known from hearsay only; timeouts of 0 and 1 ticks, restarts of two | records are never fresher than their node; the dead stay unavailable, the living come back |
| `MCLostPut` | violation | two writes with one clock: an acknowledged write is nowhere |
| `MCStaleRepair` | violation | a slow read's repairs wipe an acknowledged write |
| `MCListsDiffer` | violation | more nodes than replicas: R + W > N lists that do not meet |
| `MCHintLost` | violation | a hint stored during a delivery of its key is dropped |

The properties.

* `AckedWriteHeld`: at least W places confirmed an acknowledged write, and each goes
  on knowing it or a successor, across retries, late requests and restarts.
* `QuorumRead`: a read that met its quorum knows every write acknowledged before it.
* `KeepsPromise`: `Replication` implements `QuorumStore`.
* `ClockIsJoin`: a version's clock is exactly the join of the writes it holds, so a
  merge neither forgets a write nor claims one.
* `NoSiblingLost`: a version whose clock covers a write holds it or a causal successor.
  It is conditioned on `FreshCounters`, without which the code loses a write outright
  (`MCLostPut`).
* `ResultCoversResponses`, `ReplicasOnlyAdvance`, `LateWritesAddNothing`, `PutsEnd`,
  `GetsEnd`: see their comments.
* `MergedClockIsJoin`, `SyncKeepsSiblings`: the same of the versions that rounds
  merge, hold, send and leave to late requests.
* `OnlyTheUnreadIsLost`: an anti-entropy round may take a replica back only by
  storing over what it has not read.
* `ReplicasConverge`: once clients stop and rounds no longer overlap, replicas agree.
* `TreesTellTheDifference`: every two trees over four keys, with 0 to 4 leaves each. It
  speaks of a round that has compared trees; what it says of trees is constant.
* `AgesAreReal`, `NewsIsKept`: hearsay makes nobody look fresher, and no step forgets
  news but the end of a send that began before the record it points to was replaced.
* `DeadStayUnavailable`, `OnlyMutualDownIsForever`: failure detection, as liveness.
* `ListsAvailable`: with statuses that stay put, no available node is left out for one
  listed twice. `RepeatIsReplacement`, `ReplacementsStandForOne`, `ReplacedNodesAreOut`
  say how replacements and replicas can meet. A node can stand in the list twice (order
  A B C D, B and D down: A, C, C), and then counts twice towards the quorum.
* `OnePrimary`, `JoiningMovesLittle`: as a request comes in, what is true of rings
  whatever the state: built of three nodes in any order and with a node that lists
  itself, and with none, one or two nodes in them before another joins.
* `RemovedOnlyAfterDelivery`, `NoHintTwice`, `HintsDrain`: the buffer edited by key from
  stale copies by two goroutines.

`AckedWriteHeld`, `QuorumRead` and `ReplicasOnlyAdvance` except what a stale repair has
overwritten (`overwritten`): `MCStaleRepair` shows why they must.

Bounds. Two replicas and three writes are the smallest instance with a three-way
conflict, a version older than one and concurrent with the other, and a coordinator
outside the list (c). Two writes and one read suffice for a repair that is newer,
older or concurrent. Two attempts give a late and a repeated request. Any number of
restarts is allowed, of the two replicas. Hints: two for one key and one for
another in a buffer of two reach rotation, removal of the wrong hint, and the gap
filled from the end. Five nodes leave two outside the replicas, so that a search may
take none, one or both. In `MCSync` two writes give versions that are newer, older,
concurrent, and different with one clock; the second bucket is empty on purpose, so
that rounds cross a bucket's end; one round at each node overlaps the other in every
way. In `MCGossip` timeouts of 0 and 1 ticks keep the three ages that differ, and a
heartbeat of at most 1 tells a restarted node from one that has beaten since. The
theorems below hold for all bounds.
Symmetry: writes, reads, replicas and outsiders may be exchanged; runs with fairness use
no symmetry.
Deadlock is not checked: when every request has been answered the models stop.

Fairness. `Replication`: a goroutine goes on by itself, a local call returns and a
remote one ends at its deadline; nothing is assumed of requests in flight, of
clients, or of restarts not happening. `HintedHandoff`: the ticker fires for ever,
and a goroutine that delivers goes on to its end; that the target is reachable and
known to be is the property's premise, not fairness. `AntiEntropy`: a round under way
goes on (every call ends, at its deadline at the latest) and the ticker starts rounds
for ever, with every peer; it skips peers that gossip holds for unavailable, so
convergence is for nodes that see each other (see `OnlyMutualDownIsForever`).
`Gossip`: time passes, checks are made and sends end, at the latest after their
attempts. Sending is strongly fair: the gossip ticker is twice as fast as the one that
checks, so what a check has left not down is still so when gossip is sent. Nothing
is assumed of links whose ends are not both followed.

## 4. What is proved

All for any nodes, requests, keys, lists, quorums, retries, rounds, timeouts and
restarts; the assumptions are those of the modules (finitely many places, positive
quorums, timeouts in order, keys listed once each, no hash shared by two nodes, ...).

`VersionTheorems`. `MergeIsJoin`, `CompareIsCausalOrder`, `CompareAgrees`,
`LocalPutDominates`, `ResolvedDominates`, and the notion the clock proofs share: a
version *reflects* the writes begun when its clock is the join of the writes it holds,
every count up to its own was given to some write, and, where no count was given
twice, having a write's count means holding it or one that knew of it. The guarded
write and the merge keep this whatever they meet, and so does a new write with the
clock its coordinator takes (`NewWriteReflects`): with counts given once, its own count
is above all that any version has.

`ReplicationProofs`. `TypeCorrect`, `AckedWritesAreHeld`, `ResultsCoverResponses`,
`OnlyRepairsRegress` (the action property `ReplicasOnlyAdvance`); and `QuorumReads`: if
every list names the same replicas and R + W > N (what `ValidateConfig` demands), then
`QuorumRead`. `MCListsDiffer` shows that the first assumption is needed. `Inv` is
inductive: `RequestsOK` (nothing is done for a request before it exists), `VersionsOK`
(the snapshot is current whenever the lock is free; a missing version has no clock),
`ConfirmedIsHeld` (a place counted as a success knows the write already while the
request runs, where `AckedWriteHeld` speaks only of its end), and `ReadsSeeConfirmed`
(what a read has in hand from a node knows what that node had confirmed; the result
covers the responses met so far). One lemma per action shows that it preserves them.
`QuorumReads` adds that two sets of places of sizes R and W meet.

`ClientProofs`. `ClocksAreJoins`, `SiblingsAreKept` (`NoSiblingLost`) and
`LateWritesAreHarmless`: `CInv` adds to `Inv` that every version in hand, and every write
as it was sent, reflects the writes begun. `KeepsItsPromise`: under the assumptions of
`QuorumReads`, `Spec => KeepsPromise`, action by action.

`DataTheorems`. Lists first: the numbers that a total order gives the elements of a
finite set, from which follows that `EntriesAt` and `Sorted` return what they should.
Induction is by the least counterexample (`LeastNatural`): the step that fails first has
a step before it. Then trees: `NextLevel` tells lists of distinct hashes apart and keeps
them distinct, so two trees with one root have the same levels from the root down, of
which one ends in leaves before the other only if a pair were a leaf
(`RootTellsApart`). `NothingIsToldWrongly` follows for any number of keys.

`HintProofs`. `HintsTypeCorrect`, `RemovalFollowsDelivery` (`RemovedOnlyAfterDelivery`)
and `HintsStandOnce` (`NoHintTwice`). `HInv` adds that buffers and copies hold only
hints that were stored, that the ticker's list of delivered keys holds only such, and
`RemovesDelivered`: a goroutine about to edit the list has delivered a hint for that key.

`SyncProofs`. `SyncTypeCorrect` (`TInv`: every round's variables have their types, the
keys that trees name among them, which needs `TreesCompared`); `MergesAreJoins`,
`SyncDropsNoSibling`, `WhatIsReadIsKept`; `TreesFindTheDifference`
(`TreesTellTheDifference`) from `NothingIsToldWrongly`. `SInv` says the
same of stores, rounds and late requests, key by key, and that what a round is about to
send follows both versions it has read.

`GossipProofs`. `GossipTypeCorrect`, `RecordsAreReal`, `NewsStaysKept`. `GInv` adds to
`TypeOK` and `AgesAreReal` that the copies goroutines hold are no fresher than their
node's news, and that a running node has news of age 0.

`ResponsibilityProofs`. `WalkTypeCorrect`, `RepeatsAreReplacements`,
`ReplacementsAreForOne`, `ReplacedStayOut`: `RInv` says that each place holds the
replica it is for or that one's replacement, and what is known of a pass in which no
status has changed. `AvailableAreListed` (`ListsAvailable`) needs `NoneIsLeftOut` beside
it. A search from behind the replicas on may come round to a replica that is still to
have its turn, and list it twice; but only when it has tried all other nodes. So there
are two phases: at first the list is of available nodes, each once, and none still to
come (`ListIsExact`); then everybody available is in it or still to come
(`NobodyIsMissed`). Either at the end gives the count. `PrimariesAreAgreed`
(`OnePrimary`) and `JoinersTakeTheirOwn` (`JoiningMovesLittle`): `RingHolds` says that a
ring has the hashes of a set of nodes in ascending order, whatever way it was built, and
what `GetNode` finds depends on that set only. Leaving needs that each hash of the one
that leaves stands once (`StandsOnce`).

Every safety property and action property of a passing run is thereby a theorem.
Model-checked only: liveness (`PutsEnd`, `GetsEnd`, `HintsDrain`, `ReplicasConverge`,
`DeadStayUnavailable`, `OnlyMutualDownIsForever`), which is out of the prover's reach,
and the violation runs, which are counterexamples.

## 5. Where the code departs from what it says

The four violation runs; `PROJECT.json` quotes the lines under "findings".

Beside them the models show behaviour that nothing in the repository rules out, and
the properties are stated around it:

* Two nodes that hold each other for down send each other no gossip and never speak
  again, though the network is whole (`OnlyMutualDownIsForever` names it as the only
  case). A third node does not help: a heartbeat it reports revives nobody, as a check
  goes by ages only.
* Sends that fail store a record as suspected that a check has marked as down, so a
  dead node goes back and forth between the two. Whoever starts holds everybody for
  alive, the dead included, and may pass that on for a while.
* The end of a slow send puts back a record with an older heartbeat (`NewsIsKept`).
* Two rounds of anti-entropy that overlap may exchange the versions of two replicas
  for ever; `ReplicasConverge` assumes that they do not.
* A round overwrites what was stored since it read, and what a failed read hid.
* A node that its file lists among its own peers is in its ring twice. `GetNode` does
  not mind; `RemoveNode`, which only tests call, would then leave every virtual node of it
  behind once, without an owner.
* Hints are in memory: a restart of their node loses them, also those it has not
  tried to deliver.

## 6. Not modelled

* The write that ends `forceReconnectHints` sends the merged clock of a version without
  its siblings; a target that holds other siblings takes it for newer. It is listed as
  a hazard. It needs hints, gossip and siblings in one instance.
* `handleSloppyReplacements`, which looks for the key of a hint by comparing values, in a
  data race with every write; and which siblings `formatResult` shows.
* A snapshot that cannot be written: it is skipped in silence, and a property could
  only repeat that.
* `forceReplicateKeyToNode`, `directSyncWithNode`, `forceSyncKey`, `HandleGossip`,
  `ForceNodeDown`, `GetLiveMembers` and the internal HTTP handlers: no caller but tests,
  each other, or routes that no node calls (nodes talk gRPC).
* Clocks are cut to 32 bits on the wire, which takes 2^31 writes of a key to matter.
* Statistics, HTTP, JSON and logging, the generated protocol code, the dashboard,
  shell and benchmark scripts, the connection cache.
