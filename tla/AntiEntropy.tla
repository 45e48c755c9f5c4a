---------------------------- MODULE AntiEntropy ----------------------------
(* Anti-entropy: a node walks the buckets of the key space, compares its     *)
(* Merkle tree of each with that of a peer, and reconciles the keys that     *)
(* differ (performAntiEntropy, performMerkleSyncWithNode and                 *)
(* reconcileKeyWithNode, node.go; the RepairKey and GetMerkleBucket handlers).*)
(*                                                                           *)
(* Every tick starts a new round in a goroutine of its own, so the rounds of *)
(* one node may overlap, as do those of different nodes.  A round holds no   *)
(* lock between what it reads and what it stores.  Beside it run the writes  *)
(* that coordinators send (PutLocal), plain ones and hints, which the        *)
(* target stores whatever it holds.                                          *)
EXTENDS StoredValue, FiniteSets, MerkleTree, TLC

CONSTANTS
  KeyOrder,     \* the keys, sorted
  KeyOf,        \* the key of each Put
  BucketOf,     \* bucketForKey
  lastBucket,   \* merkleBucketCount - 1
  Coordinators, \* bound: the nodes each Put may be sent to
  MayBeHinted,  \* bound: the places <<put, node>> that may be replaced
  Round,        \* bound: the syncs that may be under way at once
  HomeOf,       \* the node each runs at
  MayBeLate     \* bound: those whose requests, given up, may still arrive

Key == Range(KeyOrder)
Bucket == 0..lastBucket

ASSUME SomeKey == 1 \in DOMAIN KeyOrder
ASSUME KeysAreInOrder ==
  /\ KeyOrder \in Seq(Key)
  /\ \A i, j \in DOMAIN KeyOrder : KeyOrder[i] = KeyOrder[j] => i = j
ASSUME SomeBucket == lastBucket \in Nat
ASSUME NoneIsNoRequest == None \notin [at : Node, vc : Clock]
ASSUME KeyOfType == KeyOf \in [Put -> Key]
ASSUME BucketOfType == BucketOf \in [Key -> Bucket]
ASSUME HomeOfType == HomeOf \in [Round -> Node]
ASSUME CoordinatorsType == Coordinators \in [Put -> SUBSET Node]

VARIABLES
  store,     \* DataStore of every node
  putReq,    \* coordinator and clock of each Put, None before it starts
  writes,    \* PutLocal requests in flight: <<put, node>>
  hints,     \* hints still to be delivered: <<put, node>>
  round,     \* the local variables of each round
  late,      \* RepairKey requests given up by their round, still under way
  calm       \* no client writes any more and the network is whole

vars == <<store, putReq, writes, hints, round, late, calm>>
requests == <<putReq, writes, hints>>

RoundPc == {"idle", "fetch", "keys", "remote", "compare", "wait"}

IsRound(rd) ==
  /\ rd.pc \in RoundPc
  /\ rd.peer \in Node /\ rd.bucket \in Bucket
  /\ DOMAIN rd.tree \subseteq Key           \* what localTree was built from
  /\ Range(rd.tree) \subseteq Version
  /\ rd.keys \subseteq Key /\ rd.key \in Key    \* diffKeys left, and the one taken
  /\ {rd.mine, rd.theirs} \subseteq Version     \* localValue, remoteValue
  /\ rd.sent \in Version                    \* what repairNode sends

LateRepair == [to : Node, key : Key, sv : Version]

TypeOK ==
  /\ store \in [Node -> [Key -> Version]]
  /\ putReq \in [Put -> [at : Node, vc : Clock] \cup {None}]
  /\ writes \subseteq Put \X Node
  /\ hints \subseteq Put \X Node
  /\ DOMAIN round = Round /\ \A r \in Round : IsRound(round[r])
  /\ late \subseteq LateRepair
  /\ calm \in BOOLEAN

NoData == [k \in {} |-> Absent]

Idle(r) ==
  [pc |-> "idle", peer |-> HomeOf[r], bucket |-> 0,
   tree |-> NoData, keys |-> {}, key |-> KeyOrder[1],
   mine |-> Absent, theirs |-> Absent, sent |-> Absent]

Init ==
  /\ store = [n \in Node |-> [k \in Key |-> Absent]]
  /\ putReq = [p \in Put |-> None]
  /\ writes = {} /\ hints = {}
  /\ round = [r \in Round |-> Idle(r)]
  /\ late = {}
  /\ calm = FALSE

StoreAt(n, k, sv) == store' = [store EXCEPT ![n][k] = sv]

-----------------------------------------------------------------------------
(* The writes beside it *)

\* Put at coordinator n, from the clock to its requests; for the nodes that
\* were replaced a hint is kept instead.
Write(p, n, replaced) ==
  LET clock == Increment(store[n][KeyOf[p]].vc, n) IN
  /\ ~calm /\ n \in Coordinators[p] /\ {p} \X replaced \subseteq MayBeHinted
  /\ putReq[p] = None
  /\ putReq' = [putReq EXCEPT ![p] = [at |-> n, vc |-> clock]]
  /\ writes' = writes \cup ({p} \X (Node \ replaced))
  /\ hints' = hints \cup ({p} \X replaced)
  /\ UNCHANGED <<store, round, late, calm>>

\* What a request for p makes of what its target holds.
Applied(p, n, force) ==
  applyReplicaWrite(n, store[n][KeyOf[p]], Written(p, putReq[p].vc), force)

DeliverWrite(p, n) ==
  /\ <<p, n>> \in writes
  /\ writes' = writes \ {<<p, n>>}
  /\ StoreAt(n, KeyOf[p], Applied(p, n, FALSE))
  /\ UNCHANGED <<putReq, hints, round, late, calm>>

\* However late it comes.
DeliverHint(p, n) ==
  /\ <<p, n>> \in hints
  /\ hints' = hints \ {<<p, n>>}
  /\ StoreAt(n, KeyOf[p], Applied(p, n, TRUE))
  /\ UNCHANGED <<putReq, writes, round, late, calm>>

\* The clients stop and the network is whole; what was in flight is lost.
Calm ==
  /\ ~calm /\ calm' = TRUE
  /\ writes' = {} /\ hints' = {} /\ late' = {}
  /\ UNCHANGED <<store, putReq, round>>

-----------------------------------------------------------------------------
(* A round *)

merklePayloadForStoredValue(sv) ==
  [value |-> sv.val, vector_clock |-> sv.vc, conflicts |-> sv.conflicts]

InBucket(n, b) == {k \in Key : BucketOf[k] = b /\ store[n][k].val # None}

buildMerkleTreeForBucket(n, b) == [k \in InBucket(n, b) |-> store[n][k]]

TreeOf(data) ==
  NewMerkleTree([k \in DOMAIN data |-> merklePayloadForStoredValue(data[k])],
                KeyOrder)

Set(r, fields) ==
  round' = [round EXCEPT ![r] =
              [f \in DOMAIN @ |-> IF f \in DOMAIN fields THEN fields[f] ELSE @[f]]]

\* The local tree of a bucket is built.
EnterBucket(r, m, b) ==
  [Idle(r) EXCEPT !.pc = "fetch", !.peer = m, !.bucket = b,
                  !.tree = buildMerkleTreeForBucket(HomeOf[r], b)]

\* performMerkleSyncWithNode begins, called for its only peer by
\* performAntiEntropyWithNode or for one peer after the other, in any order
\* and again and again, by performAntiEntropy; a peer may be skipped.
BeginSync(r, m) ==
  /\ round[r].pc = "idle"
  /\ m # HomeOf[r]
  /\ Set(r, EnterBucket(r, m, 0))
  /\ UNCHANGED <<store, requests, late, calm>>

\* Mutant: one bucket too many.
NextBucketOnePast(r) ==
  IF round[r].bucket <= lastBucket
  THEN EnterBucket(r, round[r].peer, round[r].bucket + 1)
  ELSE Idle(r)

\* On to the next bucket, or the end of the sync.
NextBucket(r) ==
  IF round[r].bucket < lastBucket
  THEN EnterBucket(r, round[r].peer, round[r].bucket + 1)
  ELSE Idle(r)

\* The peer's tree, and the keys for which the trees differ.  A list of
\* conflicts is a set here, so keys with the same conflicts in lists that are
\* nested in different ways may be among them.
FetchMerkleTree(r) ==
  LET data == buildMerkleTreeForBucket(round[r].peer, round[r].bucket)
      differ == CompareTrees(TreeOf(round[r].tree), TreeOf(data))
      alike == {k \in DOMAIN data \cap DOMAIN round[r].tree :
                  data[k] = round[r].tree[k] /\ data[k].conflicts # {}}
  IN
  /\ round[r].pc = "fetch"
  /\ \E nested \in SUBSET alike :
       Set(r, IF differ \cup nested = {} THEN NextBucket(r)
              ELSE [pc |-> "keys", tree |-> NoData, keys |-> differ \cup nested])
  /\ UNCHANGED <<store, requests, late, calm>>

\* The bucket is skipped.
FetchFails(r) ==
  /\ round[r].pc = "fetch" /\ ~calm
  /\ Set(r, NextBucket(r))
  /\ UNCHANGED <<store, requests, late, calm>>

\* reconcileKeyWithNode's localGet, for the keys in any order.
ReadMine(r, k) ==
  /\ round[r].pc = "keys" /\ k \in round[r].keys
  /\ Set(r, [pc |-> "remote", keys |-> round[r].keys \ {k}, key |-> k,
             mine |-> store[HomeOf[r]][k]])
  /\ UNCHANGED <<store, requests, late, calm>>

\* remoteGetWithRetry: when every attempt fails the key looks missing.
ReadTheirs(r) ==
  /\ round[r].pc = "remote"
  /\ \/ Set(r, [pc |-> "compare", theirs |-> store[round[r].peer][round[r].key]])
     \/ ~calm /\ Set(r, [pc |-> "compare"])
  /\ UNCHANGED <<store, requests, late, calm>>

\* On to the next of diffKeys, or of the buckets.
NextKey(r) ==
  Set(r, IF round[r].keys = {} THEN NextBucket(r)
         ELSE [pc |-> "keys", key |-> KeyOrder[1],
               mine |-> Absent, theirs |-> Absent, sent |-> Absent])

NothingToReconcile(r) ==
  /\ round[r].pc = "compare"
  /\ round[r].mine.val = None /\ round[r].theirs.val = None
  /\ NextKey(r)
  /\ UNCHANGED <<store, requests, late, calm>>

\* How the peer's version stands to the local one, where neither is missing.
Comparison(r) == compareVectorClocks(round[r].mine.vc, round[r].theirs.vc)

BothThere(r) == round[r].mine.val # None /\ round[r].theirs.val # None

\* Mutant: the comparison is read the wrong way round.
TakeTheirsOlder(r) ==
  /\ round[r].pc = "compare" /\ round[r].theirs.val # None
  /\ round[r].mine.val = None \/ Comparison(r) = "older"
  /\ StoreAt(HomeOf[r], round[r].key,
             storeReplicaValue(store[HomeOf[r]][round[r].key], round[r].theirs))
  /\ NextKey(r)
  /\ UNCHANGED <<requests, late, calm>>

TakeTheirs(r) ==
  /\ round[r].pc = "compare" /\ round[r].theirs.val # None
  /\ round[r].mine.val = None \/ Comparison(r) = "newer"
  /\ StoreAt(HomeOf[r], round[r].key,
             storeReplicaValue(store[HomeOf[r]][round[r].key], round[r].theirs))
  /\ NextKey(r)
  /\ UNCHANGED <<requests, late, calm>>

\* Mutant: with one clock the versions are taken for equal.
SendMineIfNewer(r) ==
  /\ round[r].pc = "compare" /\ round[r].mine.val # None
  /\ \/ round[r].theirs.val = None
     \/ BothThere(r) /\ Comparison(r) = "older"
  /\ IF Equals(round[r].mine.vc, round[r].theirs.vc) THEN NextKey(r)
     ELSE Set(r, [pc |-> "wait", sent |-> round[r].mine])
  /\ UNCHANGED <<store, requests, late, calm>>

\* Versions with one clock count as "older": the local one is sent.
SendMine(r) ==
  /\ round[r].pc = "compare" /\ round[r].mine.val # None
  /\ \/ round[r].theirs.val = None
     \/ BothThere(r) /\ Comparison(r) = "older"
  /\ Set(r, [pc |-> "wait", sent |-> round[r].mine])
  /\ UNCHANGED <<store, requests, late, calm>>

\* Both are merged, with the one or the other as the primary, and the result
\* is stored here and sent.
MergeBoth(r) ==
  LET mine == round[r].mine  theirs == round[r].theirs IN
  /\ round[r].pc = "compare" /\ BothThere(r)
  /\ Comparison(r) = "concurrent"
  /\ \E merged \in {mergeConflicts(mine, theirs), mergeConflicts(theirs, mine)} :
       /\ StoreAt(HomeOf[r], round[r].key,
                  storeReplicaValue(store[HomeOf[r]][round[r].key], merged))
       /\ Set(r, [pc |-> "wait", sent |-> merged])
  /\ UNCHANGED <<requests, late, calm>>

\* repairNode and the RepairKey handler.
RepairArrives(r) ==
  LET m == round[r].peer  k == round[r].key IN
  /\ round[r].pc = "wait"
  /\ StoreAt(m, k, storeReplicaValue(store[m][k], round[r].sent))
  /\ NextKey(r)
  /\ UNCHANGED <<requests, late, calm>>

\* The deadline passes; the request may have been lost, or be executed later.
RepairTimesOut(r) ==
  LET request == [to |-> round[r].peer, key |-> round[r].key,
                  sv |-> round[r].sent] IN
  /\ round[r].pc = "wait" /\ ~calm
  /\ late' \in {late} \cup (IF r \in MayBeLate THEN {{request}} ELSE {})
  /\ NextKey(r)
  /\ UNCHANGED <<store, requests, calm>>

RepairArrivesLate(m) ==
  /\ m \in late
  /\ late' = late \ {m}
  /\ StoreAt(m.to, m.key, storeReplicaValue(store[m.to][m.key], m.sv))
  /\ UNCHANGED <<requests, round, calm>>

-----------------------------------------------------------------------------
SyncStep(r) ==
  \/ FetchMerkleTree(r) \/ FetchFails(r)
  \/ \E k \in Key : ReadMine(r, k)
  \/ ReadTheirs(r)
  \/ NothingToReconcile(r) \/ TakeTheirs(r) \/ SendMine(r) \/ MergeBoth(r)
  \/ RepairArrives(r) \/ RepairTimesOut(r)

Next ==
  \/ \E p \in Put, n \in Node :
       \/ \E replaced \in SUBSET (Node \ {n}) : Write(p, n, replaced)
       \/ DeliverWrite(p, n)
       \/ DeliverHint(p, n)
  \/ Calm
  \/ \E r \in Round : SyncStep(r) \/ \E m \in Node : BeginSync(r, m)
  \/ \E m \in late : RepairArrivesLate(m)

Spec == Init /\ [][Next]_vars

\* Weak fairness of SyncStep(r), spelt out for TLC: a round under way always
\* has a step to take, and only its own steps change it.
RoundGoesOn(r) ==
  []<>(round[r].pc = "idle") \/ []<><<round'[r] # round[r]>>_vars

\* The ticker starts rounds for ever, with every peer, and every call of a
\* round returns, at the latest at its deadline.
FairSpec ==
  /\ Spec
  /\ \A r \in Round : RoundGoesOn(r)
  /\ \A r \in Round : \A m \in Node : WF_vars(BeginSync(r, m))

-----------------------------------------------------------------------------
PutClock(p) == putReq[p].vc

\* The versions of a key at the nodes, in the hands of a round, or in a late
\* request.
LiveVersions(k) ==
  {store[n][k] : n \in Node}
    \cup {m.sv : m \in {l \in late : l.key = k}}
    \cup UNION {{round[r].mine, round[r].theirs, round[r].sent} :
                  r \in {q \in Round : round[q].key = k}}

\* The clock of a version stays the least upper bound of the clocks of the
\* writes it holds while rounds merge, exchange and overwrite versions.
\* About mergeConflicts as reconcileKeyWithNode uses it.
MergedClockIsJoin ==
  \A k \in Key : \A sv \in LiveVersions(k) :
    /\ \A p \in Holds(sv) : KeyOf[p] = k /\ Leq(PutClock(p), sv.vc)
    /\ \A n \in Node :
         sv.vc[n] # 0 => \E p \in Holds(sv) : PutClock(p)[n] = sv.vc[n]

\* No two writes of a key got the same counter from one coordinator.
FreshCounters ==
  \A p, q \in {w \in Put : putReq[w] # None} :
    p # q /\ KeyOf[p] = KeyOf[q] /\ putReq[p].at = putReq[q].at
      => PutClock(p)[putReq[p].at] # PutClock(q)[putReq[q].at]

\* Where every write got a counter of its own, anti-entropy drops no sibling:
\* a version whose clock covers a write holds it or one that follows it.
SyncKeepsSiblings ==
  FreshCounters =>
    \A k \in Key : \A sv \in LiveVersions(k) :
      \A p \in {w \in Put : KeyOf[w] = k /\ putReq[w] # None} :
        Leq(PutClock(p), sv.vc) =>
          \E q \in Holds(sv) : Leq(PutClock(p), PutClock(q))

\* What a round read at a node it stores at, for the key it is at.
ReadAt(r, n) == IF n = HomeOf[r] THEN round[r].mine ELSE round[r].theirs

KeepsWhatIsRead(n, k) ==
  \/ Leq(store[n][k].vc, store'[n][k].vc)
  \/ \E h \in hints : h[2] = n /\ store'[n][k] = Written(h[1], PutClock(h[1]))
  \/ \E r \in Round : /\ round'[r] # round[r] /\ round[r].key = k
                       /\ ReadAt(r, n) # store[n][k]
  \/ \E m \in late \ late' : m.to = n /\ m.key = k

\* A replica goes back only where a hint strikes, a repair that was given up
\* arrives, or a round replaces a version it has not read: one stored since,
\* or hidden by a read that failed.  What a round has read it never takes
\* back.  About the four cases of reconcileKeyWithNode.
OnlyTheUnreadIsLost == [][\A n \in Node, k \in Key : KeepsWhatIsRead(n, k)]_vars

Overlap == \E r, q \in Round : r # q /\ round[r].pc # "idle" /\ round[q].pc # "idle"

Agreed == \A n, m \in Node : store[n] = store[m]

\* When the clients have stopped, the network is whole and the rounds of the
\* nodes eventually no longer overlap, the replicas come to agree and stay so.
\* (Two rounds that overlap may exchange the replicas' versions for ever.)
ReplicasConverge == <>[](calm /\ ~Overlap) => <>[]Agreed

\* When a round has compared a tree with a peer's, such a comparison finds the
\* keys the two disagree about and no other, a key that only one has included,
\* whatever the number of leaves and however the odd levels fall; a round has
\* too few keys here to tell.  About buildTree, Root and findDifferingKeys.
TreesTellTheDifference ==
  (\E r \in Round : round[r].pc = "keys") => ToldWrongly = {}
=============================================================================
