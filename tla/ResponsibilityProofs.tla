------------------------ MODULE ResponsibilityProofs ------------------------
(* What the walk round the ring may return, for any rings, replication       *)
(* factor and number of passes, whatever gossip does meanwhile; and what the *)
(* hash ring makes of any nodes and hashes.                                  *)
EXTENDS Responsibility, DataTheorems

\* Each place holds the replica it is for, or what replaced that replica.
PlacesAreAccountedFor ==
  \A a \in 1..i : nodes[a] = At(a - 1) \/ <<At(a - 1), nodes[a]>> \in replacements

\* Within a pass in which no status changes, what is in the list is available
\* or was kept for want of a replacement, and what was replaced is not.
PassIsSteady ==
  steady =>
    /\ pc = "candidate" => ~isNodeAvailable(At(i))
    /\ \A a \in 1..i : isNodeAvailable(nodes[a]) \/ nodes[a] = At(a - 1)
    /\ \A x \in replacements :
         /\ ~isNodeAvailable(x[1]) /\ x[1] \notin Listed
         /\ \E k \in 0..(i - 1) : x[1] = At(k)

RInv ==
  /\ TypeOK
  /\ pc = "idle" => i = 0 /\ nodes = << >> /\ replacements = {}
  /\ pc # "idle" => allNodes \in Orders /\ i <= Len(allNodes)
  /\ pc = "candidate" => i < Replication /\ i < Len(allNodes)
  /\ PlacesAreAccountedFor
  /\ ReplacementsStandForOne
  /\ PassIsSteady

\* The places of an order are the nodes of the ring, the first ones once each.
LEMMA OrderFacts ==
  ASSUME RInv, pc # "idle"
  PROVE  /\ Len(allNodes) = Cardinality(ring) /\ Len(allNodes) \in Nat \ {0}
         /\ \A k \in Nat : At(k) \in ring
         /\ \A k, l \in 0..(Len(allNodes) - 1) : At(k) = At(l) => k = l
<1>1. IsFiniteSet(ring) /\ Primary \in ring
  BY RingsHoldBoth DEF RInv, TypeOK
<1>2. Cardinality(ring) \in Nat \ {0}
  BY <1>1, FS_CardinalityType, FS_EmptySet
<1>3. allNodes \in [1..Cardinality(ring) -> ring]
      /\ \A a, b \in DOMAIN allNodes : allNodes[a] = allNodes[b] => a = b
  BY DEF RInv, Orders
<1>4. Len(allNodes) = Cardinality(ring)
  BY <1>2, <1>3
<1>5. \A k \in Nat : (k % Len(allNodes)) + 1 \in 1..Len(allNodes)
  BY <1>2, <1>4
<1>6. \A k \in 0..(Len(allNodes) - 1) : k % Len(allNodes) = k
  BY <1>2, <1>4
<1>7. \A k \in Nat : At(k) \in ring
  BY <1>3, <1>4, <1>5 DEF At
<1>8. ASSUME NEW k \in 0..(Len(allNodes) - 1), NEW l \in 0..(Len(allNodes) - 1),
             At(k) = At(l)
      PROVE  k = l
  <2>1. At(k) = allNodes[k + 1] /\ At(l) = allNodes[l + 1]
    BY <1>6 DEF At
  <2>2. k + 1 \in DOMAIN allNodes /\ l + 1 \in DOMAIN allNodes /\ k \in Nat /\ l \in Nat
    BY <1>2, <1>3, <1>4
  <2>3. k + 1 = l + 1
    BY <1>3, <1>8, <2>1, <2>2
  <2> QED BY <2>2, <2>3
<1> QED BY <1>2, <1>4, <1>7, <1>8

\* One more node in the list.
LEMMA TakeNodeFacts ==
  ASSUME RInv, NEW n \in ring, TakeNode(n)
  PROVE  /\ nodes' \in Seq(ring) /\ i' = i + 1 /\ Len(nodes') = i' /\ pc' = "replica"
         /\ i \in Nat /\ Len(nodes) = i
         /\ \A a \in 1..i : nodes'[a] = nodes[a]
         /\ nodes'[i + 1] = n
         /\ Listed' = Listed \cup {n}
<1>1. nodes \in Seq(ring) /\ Len(nodes) = i /\ i \in Nat
  BY DEF RInv, TypeOK
<1>2. nodes' = Append(nodes, n) /\ i' = i + 1 /\ pc' = "replica"
  BY DEF TakeNode
<1>3. /\ nodes' \in Seq(ring) /\ Len(nodes') = i + 1
      /\ DOMAIN nodes = 1..i /\ DOMAIN nodes' = 1..(i + 1)
      /\ \A a \in 1..i : nodes'[a] = nodes[a]
      /\ nodes'[i + 1] = n
  BY <1>1, <1>2
<1>4. Listed' = Listed \cup {n}
  <2>1. Listed = {nodes[a] : a \in 1..i} /\ Listed' = {nodes'[a] : a \in 1..(i + 1)}
    BY <1>3 DEF Listed, Range
  <2>2. 1..(i + 1) = 1..i \cup {i + 1}
    BY <1>1
  <2> QED BY <1>3, <2>1, <2>2
<1> QED BY <1>1, <1>2, <1>3, <1>4

LEMMA WalkInit == Init => RInv
<1> SUFFICES ASSUME Init PROVE RInv
  OBVIOUS
<1>1. IsFiniteSet(ring) /\ Self \in ring
  BY RingsHoldBoth DEF Init
<1>2. TypeOK
  BY <1>1, ReplicationIsPositive, RetriesArePositive, FS_CardinalityType DEF Init, TypeOK
<1> QED BY <1>2 DEF Init, RInv, PlacesAreAccountedFor, ReplacementsStandForOne, PassIsSteady

LEMMA BeginPassKeeps ==
  ASSUME RInv, BeginPass, attempt' \in 0..(maxRetryAttempts - 1)
  PROVE  RInv'
<1>1. IsFiniteSet(ring)
  BY RingsHoldBoth DEF RInv, TypeOK
<1>2. Cardinality(ring) \in Nat
  BY <1>1, FS_CardinalityType
<1>3. allNodes' \in Orders /\ Len(allNodes') \in Nat
  <2>1. allNodes' \in [1..Cardinality(ring) -> ring]
    BY DEF BeginPass, Orders
  <2> QED BY <1>2, <2>1 DEF BeginPass
<1>4. TypeOK'
  BY <1>2, <1>3, ReplicationIsPositive DEF RInv, TypeOK, BeginPass, Orders
<1> QED
  BY <1>3, <1>4 DEF RInv, BeginPass, PlacesAreAccountedFor, ReplacementsStandForOne,
     PassIsSteady, Orders

LEMMA StatusChangesKeeps ==
  ASSUME RInv, NEW n \in ring, StatusChanges(n)
  PROVE  RInv'
<1>1. TypeOK'
  BY DEF RInv, TypeOK, StatusChanges, Orders
<1> QED
  BY <1>1 DEF RInv, StatusChanges, PlacesAreAccountedFor, ReplacementsStandForOne,
     PassIsSteady, Orders, Listed, At

LEMMA TakeReplicaKeeps ==
  ASSUME RInv, TakeReplica
  PROVE  RInv'
<1>1. /\ pc = "replica" /\ i < Replication /\ i < Len(allNodes) /\ i \in Nat
      /\ isNodeAvailable(At(i)) /\ TakeNode(At(i))
      /\ UNCHANGED <<ring, alive, attempt, allNodes, j, replacements, steady>>
  BY DEF TakeReplica, Walking, RInv, TypeOK
<1>2. At(i) \in ring /\ Len(allNodes) \in Nat
  BY <1>1, OrderFacts
<1> DEFINE facts == /\ nodes' \in Seq(ring) /\ i' = i + 1 /\ Len(nodes') = i'
                    /\ pc' = "replica" /\ \A a \in 1..i : nodes'[a] = nodes[a]
                    /\ nodes'[i + 1] = At(i) /\ Listed' = Listed \cup {At(i)}
<1>3. facts
  BY <1>1, <1>2, TakeNodeFacts
<1>4. 1..i' = 1..i \cup {i + 1}
  BY <1>1, <1>3
<1>5. \A k : At(k)' = At(k)
  BY <1>1 DEF At
<1>6. TypeOK'
  BY <1>1, <1>3, ReplicationIsPositive DEF RInv, TypeOK, Orders
<1>7. PlacesAreAccountedFor'
  BY <1>1, <1>3, <1>4, <1>5 DEF RInv, PlacesAreAccountedFor
<1>8. ReplacementsStandForOne'
  BY <1>1, <1>3 DEF RInv, ReplacementsStandForOne
<1>9. PassIsSteady'
  <2> SUFFICES ASSUME steady PROVE PassIsSteady'
    BY <1>1 DEF PassIsSteady
  <2>1. \A a \in 1..i' : isNodeAvailable(nodes'[a]) \/ nodes'[a] = At(a - 1)
    BY <1>1, <1>3, <1>4 DEF RInv, PassIsSteady
  <2>2. ASSUME NEW x \in replacements
        PROVE  /\ ~isNodeAvailable(x[1]) /\ x[1] \notin Listed'
               /\ \E k \in 0..(i' - 1) : x[1] = At(k)
    BY <1>1, <1>3 DEF RInv, PassIsSteady
  <2>3. \A n : isNodeAvailable(n)' = isNodeAvailable(n)
    BY <1>1 DEF isNodeAvailable, getNodeStatusIsAlive
  <2> QED BY <1>1, <1>3, <1>5, <2>1, <2>2, <2>3 DEF PassIsSteady
<1> QED
  BY <1>1, <1>2, <1>3, <1>6, <1>7, <1>8, <1>9 DEF RInv, Orders

LEMMA SeekReplacementKeeps ==
  ASSUME RInv, SeekReplacement
  PROVE  RInv'
<1>1. /\ i < Replication /\ i < Len(allNodes) /\ pc = "replica" /\ pc' = "candidate"
      /\ ~isNodeAvailable(At(i)) /\ j' = 0
      /\ UNCHANGED <<ring, alive, attempt, allNodes, i, nodes, replacements, steady>>
  BY DEF SeekReplacement, Walking
<1>2. Cardinality(ring) \in Nat
  BY <1>1, OrderFacts
<1>3. TypeOK'
  BY <1>1, <1>2 DEF RInv, TypeOK, Orders
<1> QED
  BY <1>1, <1>3 DEF RInv, PlacesAreAccountedFor, ReplacementsStandForOne,
     PassIsSteady, Orders, Listed, At, isNodeAvailable, getNodeStatusIsAlive

LEMMA SkipCandidateKeeps ==
  ASSUME RInv, SkipCandidate
  PROVE  RInv'
<1>1. /\ pc = "candidate" /\ j < Len(allNodes) /\ j' = j + 1
      /\ UNCHANGED <<ring, alive, pc, attempt, allNodes, i, nodes, replacements, steady>>
  BY DEF SkipCandidate
<1>2. Len(allNodes) = Cardinality(ring) /\ Cardinality(ring) \in Nat
  BY <1>1, OrderFacts
<1>3. TypeOK'
  BY <1>1, <1>2 DEF RInv, TypeOK, Orders
<1> QED
  BY <1>1, <1>3 DEF RInv, PlacesAreAccountedFor, ReplacementsStandForOne,
     PassIsSteady, Orders, Listed, At, isNodeAvailable, getNodeStatusIsAlive

LEMMA TakeReplacementKeeps ==
  ASSUME RInv, TakeReplacement
  PROVE  RInv'
<1> DEFINE c == Candidate
<1>1. /\ pc = "candidate" /\ isNodeAvailable(c) /\ ~Contains(nodes, c)
      /\ replacements' = replacements \cup {<<At(i), c>>} /\ TakeNode(c)
      /\ UNCHANGED <<ring, alive, attempt, allNodes, j, steady>>
      /\ i < Replication /\ i < Len(allNodes) /\ i \in Nat
  BY DEF TakeReplacement, RInv, TypeOK
<1>2. At(i) \in ring /\ Len(allNodes) \in Nat /\ c \in ring
      /\ \A k \in 0..(i - 1) : At(k) # At(i)
  <2>1. Replication + j \in Nat
    BY ReplicationIsPositive, FS_CardinalityType, RingsHoldBoth DEF RInv, TypeOK
  <2> QED BY <1>1, <2>1, OrderFacts DEF Candidate
<1> HIDE DEF c
<1>3. /\ nodes' \in Seq(ring) /\ i' = i + 1 /\ Len(nodes') = i' /\ pc' = "replica"
      /\ Len(nodes) = i /\ \A a \in 1..i : nodes'[a] = nodes[a]
      /\ nodes'[i + 1] = c /\ Listed' = Listed \cup {c}
  BY <1>1, <1>2, TakeNodeFacts
<1>4. 1..i' = 1..i \cup {i + 1}
  BY <1>1, <1>3
<1>5. \A k : At(k)' = At(k)
  BY <1>1 DEF At
<1>6. c \notin Listed
  <2>1. DOMAIN nodes = 1..Len(nodes)
    BY DEF RInv, TypeOK
  <2> QED BY <1>1, <2>1 DEF Contains, Listed, Range
<1>7. TypeOK'
  BY <1>1, <1>2, <1>3, ReplicationIsPositive DEF RInv, TypeOK, Orders
<1>8. PlacesAreAccountedFor'
  BY <1>1, <1>3, <1>4, <1>5 DEF RInv, PlacesAreAccountedFor
<1>9. ReplacementsStandForOne'
  BY <1>1, <1>3, <1>6 DEF RInv, ReplacementsStandForOne
<1>10. PassIsSteady'
  <2> SUFFICES ASSUME steady PROVE PassIsSteady'
    BY <1>1 DEF PassIsSteady
  <2>1. ~isNodeAvailable(At(i))
    BY <1>1 DEF RInv, PassIsSteady
  <2>2. \A a \in 1..i' : isNodeAvailable(nodes'[a]) \/ nodes'[a] = At(a - 1)
    BY <1>1, <1>3, <1>4 DEF RInv, PassIsSteady
  <2>3. At(i) \notin Listed
    <3>1. Listed = {nodes[a] : a \in 1..i}
      BY <1>3 DEF Listed, Range, RInv, TypeOK
    <3>2. \A a \in 1..i : isNodeAvailable(nodes[a]) \/ nodes[a] = At(a - 1)
      BY DEF RInv, PassIsSteady
    <3>3. \A a \in 1..i : a - 1 \in 0..(i - 1)
      BY <1>1
    <3> QED BY <1>2, <2>1, <3>1, <3>2, <3>3
  <2>4. ASSUME NEW x \in replacements
        PROVE  /\ ~isNodeAvailable(x[1]) /\ x[1] \notin Listed'
               /\ \E k \in 0..(i' - 1) : x[1] = At(k)
    BY <1>1, <1>3 DEF RInv, PassIsSteady
  <2>5. /\ ~isNodeAvailable(At(i)) /\ At(i) \notin Listed'
        /\ \E k \in 0..(i' - 1) : At(i) = At(k)
    BY <1>1, <1>3, <2>1, <2>3
  <2>6. \A n : isNodeAvailable(n)' = isNodeAvailable(n)
    BY <1>1 DEF isNodeAvailable, getNodeStatusIsAlive
  <2>7. \A x \in replacements' :
          /\ ~isNodeAvailable(x[1]) /\ x[1] \notin Listed'
          /\ \E k \in 0..(i' - 1) : x[1] = At(k)
    BY <1>1, <2>4, <2>5
  <2> QED BY <1>3, <1>5, <2>2, <2>6, <2>7 DEF PassIsSteady
<1> QED
  BY <1>1, <1>2, <1>3, <1>7, <1>8, <1>9, <1>10 DEF RInv, Orders

LEMMA KeepUnavailableKeeps ==
  ASSUME RInv, KeepUnavailable
  PROVE  RInv'
<1>1. /\ pc = "candidate" /\ TakeNode(At(i))
      /\ UNCHANGED <<ring, alive, attempt, allNodes, j, replacements, steady>>
      /\ i < Replication /\ i < Len(allNodes) /\ i \in Nat
  BY DEF KeepUnavailable, RInv, TypeOK
<1>2. At(i) \in ring /\ Len(allNodes) \in Nat
      /\ \A k \in 0..(i - 1) : At(k) # At(i)
  BY <1>1, OrderFacts
<1>3. /\ nodes' \in Seq(ring) /\ i' = i + 1 /\ Len(nodes') = i' /\ pc' = "replica"
      /\ \A a \in 1..i : nodes'[a] = nodes[a]
      /\ nodes'[i + 1] = At(i) /\ Listed' = Listed \cup {At(i)}
  BY <1>1, <1>2, TakeNodeFacts
<1>4. 1..i' = 1..i \cup {i + 1}
  BY <1>1, <1>3
<1>5. \A k : At(k)' = At(k)
  BY <1>1 DEF At
<1>6. TypeOK'
  BY <1>1, <1>3, ReplicationIsPositive DEF RInv, TypeOK, Orders
<1>7. PlacesAreAccountedFor'
  BY <1>1, <1>3, <1>4, <1>5 DEF RInv, PlacesAreAccountedFor
<1>8. ReplacementsStandForOne'
  BY <1>1, <1>3 DEF RInv, ReplacementsStandForOne
<1>9. PassIsSteady'
  <2> SUFFICES ASSUME steady PROVE PassIsSteady'
    BY <1>1 DEF PassIsSteady
  <2>1. \A a \in 1..i' : isNodeAvailable(nodes'[a]) \/ nodes'[a] = At(a - 1)
    BY <1>1, <1>3, <1>4 DEF RInv, PassIsSteady
  <2>2. ASSUME NEW x \in replacements
        PROVE  /\ ~isNodeAvailable(x[1]) /\ x[1] \notin Listed'
               /\ \E k \in 0..(i' - 1) : x[1] = At(k)
    BY <1>1, <1>2, <1>3 DEF RInv, PassIsSteady
  <2>3. \A n : isNodeAvailable(n)' = isNodeAvailable(n)
    BY <1>1 DEF isNodeAvailable, getNodeStatusIsAlive
  <2> QED BY <1>1, <1>3, <1>5, <2>1, <2>2, <2>3 DEF PassIsSteady
<1> QED
  BY <1>1, <1>2, <1>3, <1>6, <1>7, <1>8, <1>9 DEF RInv, Orders

LEMMA UnchangedKeeps ==
  ASSUME RInv,
         UNCHANGED <<ring, alive, attempt, allNodes, i, j, nodes, replacements, steady>>,
         pc' = pc \/ (pc = "replica" /\ pc' = "done")
  PROVE  RInv'
<1>1. TypeOK'
  BY DEF RInv, TypeOK, Orders
<1> QED
  BY <1>1 DEF RInv, PlacesAreAccountedFor, ReplacementsStandForOne,
     PassIsSteady, Orders, Listed, At, isNodeAvailable, getNodeStatusIsAlive

LEMMA WalkStep == RInv /\ [Next]_vars => RInv'
<1> SUFFICES ASSUME RInv, [Next]_vars PROVE RInv'
  OBVIOUS
<1>1. CASE Start
  BY <1>1, BeginPassKeeps DEF Start, RInv, TypeOK
<1>2. CASE TryAgain
  <2>1. attempt' \in 0..(maxRetryAttempts - 1)
    BY <1>2, RetriesArePositive DEF TryAgain, RInv, TypeOK
  <2> QED BY <1>2, <2>1, BeginPassKeeps DEF TryAgain
<1>3. CASE Return
  BY <1>3, UnchangedKeeps DEF Return, PassIsOver
<1>4. CASE UNCHANGED vars
  BY <1>4, UnchangedKeeps DEF vars
<1> QED
  BY <1>1, <1>2, <1>3, <1>4, TakeReplicaKeeps, SeekReplacementKeeps, TakeReplacementKeeps,
     SkipCandidateKeeps, KeepUnavailableKeeps, StatusChangesKeeps DEF Next

-----------------------------------------------------------------------------
LEMMA Walk == Spec => []RInv
  BY WalkInit, WalkStep, PTL DEF Spec

\* The variables of getResponsibleNodes keep their types, and its loops stay
\* within the ring.
THEOREM WalkTypeCorrect == Spec => []TypeOK
<1>1. RInv => TypeOK
  BY DEF RInv
<1> QED BY <1>1, Walk, PTL

\* A hint is kept for one original of each replacement, whatever statuses
\* change during the walk: about processSloppyReplacements.
THEOREM ReplacementsAreForOne == Spec => []ReplacementsStandForOne
<1>1. RInv => ReplacementsStandForOne
  BY DEF RInv
<1> QED BY <1>1, Walk, PTL

\* Only a replacement can stand twice: replicas are as many nodes as places,
\* so that a list without replacements counts every success once.
THEOREM RepeatsAreReplacements == Spec => []RepeatIsReplacement
<1>1. ASSUME RInv PROVE RepeatIsReplacement
  <2> SUFFICES ASSUME NEW a \in DOMAIN nodes, NEW b \in DOMAIN nodes, a < b,
                      nodes[a] = nodes[b]
               PROVE  \E n \in ring : <<n, nodes[a]>> \in replacements
    BY DEF RepeatIsReplacement
  <2>1. a \in 1..i /\ b \in 1..i /\ i \in Nat
    BY <1>1 DEF RInv, TypeOK
  <2>2. pc # "idle" /\ i <= Len(allNodes)
    BY <1>1, <2>1 DEF RInv
  <2>3. /\ At(a - 1) \in ring /\ At(b - 1) \in ring /\ At(a - 1) # At(b - 1)
    BY <1>1, <2>1, <2>2, OrderFacts
  <2> QED BY <1>1, <2>1, <2>3 DEF RInv, PlacesAreAccountedFor
<1> QED BY <1>1, Walk, PTL

\* With statuses that stay put, no hint is kept for a node that is written
\* directly as well.
THEOREM ReplacedStayOut == Spec => []ReplacedNodesAreOut
<1>1. RInv => ReplacedNodesAreOut
  BY DEF RInv, PassIsSteady, ReplacedNodesAreOut
<1> QED BY <1>1, Walk, PTL

-----------------------------------------------------------------------------
\* The replicas whose turn is still to come, from the m-th on.
ReplicasFrom(m) ==
  {At(k) : k \in {l \in m..(Replication - 1) : l < Len(allNodes)}}

\* Whoever is available is in the list or a replica still to come.
NobodyIsMissed == alive \subseteq Listed \cup ReplicasFrom(i)

\* The list is of available nodes, each once, and of none still to come.
ListIsExact ==
  /\ Listed \subseteq alive /\ Cardinality(Listed) = i
  /\ ReplicasFrom(i) \cap Listed = {}

\* What the search has passed by is in the list or not available, and it has
\* not taken a replica before its turn until it had tried all the others.
NoneIsLeftOut ==
  steady =>
    /\ \A m \in 0..(i - 1) : At(m) \in alive => At(m) \in Listed
    /\ pc = "candidate" =>
         \A k \in 0..(j - 1) :
           At(Replication + k) \in alive => At(Replication + k) \in Listed
    /\ pc # "idle" => NobodyIsMissed \/ ListIsExact
    /\ pc = "done" => i = Replication \/ i = Len(allNodes)

AInv == RInv /\ NoneIsLeftOut

LEMMA AvailableIsAlive == ASSUME RInv PROVE \A n : isNodeAvailable(n) <=> n \in alive
  BY DEF RInv, TypeOK, isNodeAvailable, getNodeStatusIsAlive

\* Every node of the ring has a place in the order.
LEMMA OrderIsComplete ==
  ASSUME RInv, pc # "idle", NEW n \in ring
  PROVE  \E k \in 0..(Len(allNodes) - 1) : At(k) = n
<1> DEFINE c == Cardinality(ring)
<1>1. IsFiniteSet(ring) /\ c \in Nat /\ Len(allNodes) = c
  BY OrderFacts, RingsHoldBoth DEF RInv, TypeOK
<1>2. allNodes \in [1..c -> ring] /\ allNodes \in Injection(1..c, ring)
  BY DEF RInv, Orders, Injection, IsInjective
<1>3. IsFiniteSet(1..c) /\ Cardinality(1..c) = c
  <2> HIDE DEF c
  <2> QED BY <1>1, FS_Interval
<1>4. Cardinality(1..c) = Cardinality(ring)
  BY <1>3
<1> HIDE DEF c
<1>5. allNodes \in Surjection(1..c, ring)
  BY <1>1, <1>2, <1>3, <1>4, FS_Injection
<1>6. PICK a \in 1..c : allNodes[a] = n
  BY <1>5 DEF Surjection
<1>7. a - 1 \in 0..(c - 1) /\ (a - 1) % c = a - 1
  BY <1>1, <1>6
<1> QED BY <1>1, <1>6, <1>7 DEF At

\* A node of the ring that is no replica is a candidate.
LEMMA CandidateOrReplica ==
  ASSUME RInv, pc # "idle", NEW n \in ring
  PROVE  \/ n \in ReplicasFrom(0)
         \/ \E k \in Nat : Replication + k < Len(allNodes) /\ n = At(Replication + k)
<1>1. PICK k \in 0..(Len(allNodes) - 1) : At(k) = n
  BY OrderIsComplete
<1>2. Len(allNodes) \in Nat /\ Replication \in Nat
  BY OrderFacts, ReplicationIsPositive
<1>3. CASE k < Replication
  BY <1>1, <1>2, <1>3 DEF ReplicasFrom
<1>4. CASE k >= Replication
  <2>1. PICK l \in Nat : l = k - Replication
    BY <1>1, <1>2, <1>4
  <2>2. Replication + l = k /\ k < Len(allNodes)
    BY <1>1, <1>2, <2>1
  <2> QED BY <1>1, <2>2
<1> QED BY <1>1, <1>2, <1>3, <1>4

\* A replica's turn.
LEMMA ReplicasFromFacts ==
  ASSUME RInv, pc # "idle"
  PROVE  /\ i < Replication /\ i < Len(allNodes) =>
               /\ ReplicasFrom(i) = ReplicasFrom(i + 1) \cup {At(i)}
               /\ At(i) \notin ReplicasFrom(i + 1)
         /\ i = Replication \/ i = Len(allNodes) => ReplicasFrom(i) = {}
         /\ \A n \in ReplicasFrom(0) : n \in ReplicasFrom(i) \/ \E m \in 0..(i - 1) : n = At(m)
<1>1. /\ Len(allNodes) \in Nat /\ Replication \in Nat /\ i \in Nat
      /\ \A k, l \in 0..(Len(allNodes) - 1) : At(k) = At(l) => k = l
  BY OrderFacts, ReplicationIsPositive DEF RInv, TypeOK
<1> DEFINE turns(m) == {l \in m..(Replication - 1) : l < Len(allNodes)}
<1>2. \A m : ReplicasFrom(m) = {At(k) : k \in turns(m)}
  BY DEF ReplicasFrom
<1>3. ASSUME i < Replication, i < Len(allNodes)
      PROVE  /\ ReplicasFrom(i) = ReplicasFrom(i + 1) \cup {At(i)}
             /\ At(i) \notin ReplicasFrom(i + 1)
  <2>1. turns(i) = turns(i + 1) \cup {i}
    BY <1>1, <1>3
  <2>2. \A k \in turns(i + 1) : k \in 0..(Len(allNodes) - 1) /\ k # i
    BY <1>1
  <2>3. i \in 0..(Len(allNodes) - 1)
    BY <1>1, <1>3
  <2> HIDE DEF turns
  <2> QED BY <1>1, <1>2, <2>1, <2>2, <2>3
<1>4. ASSUME i = Replication \/ i = Len(allNodes) PROVE ReplicasFrom(i) = {}
  <2>1. turns(i) = {}
    BY <1>1, <1>4
  <2> QED BY <1>2, <2>1
<1>5. \A k \in turns(0) : k \in turns(i) \/ k \in 0..(i - 1)
  BY <1>1
<1> HIDE DEF turns
<1> QED BY <1>2, <1>3, <1>4, <1>5

\* Every candidate has been tried: no available node is missed any more.
LEMMA AllCandidatesTried ==
  ASSUME AInv, steady, pc = "candidate", Replication + j >= Len(allNodes)
  PROVE  alive \subseteq Listed \cup ReplicasFrom(i + 1)
<1> SUFFICES ASSUME NEW n \in alive, n \notin Listed PROVE n \in ReplicasFrom(i + 1)
  OBVIOUS
<1>1. RInv /\ NoneIsLeftOut /\ n \in ring /\ i < Replication /\ i < Len(allNodes)
  BY DEF AInv, RInv, TypeOK
<1>2. At(i) \notin alive
  BY <1>1, AvailableIsAlive DEF RInv, PassIsSteady
<1>3. /\ Len(allNodes) \in Nat /\ Replication \in Nat /\ j \in Nat
  BY <1>1, OrderFacts, ReplicationIsPositive DEF RInv, TypeOK
<1>4. \A k \in 0..(j - 1) : At(Replication + k) \in alive => At(Replication + k) \in Listed
  BY <1>1 DEF NoneIsLeftOut
<1>5. ASSUME NEW k \in Nat, Replication + k < Len(allNodes), n = At(Replication + k)
      PROVE  FALSE
  <2>1. k \in 0..(j - 1)
    BY <1>3, <1>5
  <2> QED BY <1>4, <1>5, <2>1
<1>6. n \in ReplicasFrom(0)
  BY <1>1, <1>5, CandidateOrReplica
<1>7. \A m \in 0..(i - 1) : n # At(m)
  BY <1>1 DEF NoneIsLeftOut
<1>8. n \in ReplicasFrom(i)
  BY <1>1, <1>6, <1>7, ReplicasFromFacts
<1> QED BY <1>1, <1>2, <1>8, ReplicasFromFacts

\* An available node taken out of turn neither makes a miss nor, unless it is
\* a replica still to come, spoils the list.
LEMMA TakeKeepsExact ==
  ASSUME RInv, NEW n \in ring, TakeNode(n), UNCHANGED <<alive, allNodes>>,
         i < Replication, i < Len(allNodes), pc # "idle"
  PROVE  /\ alive \subseteq Listed \cup {n} \cup ReplicasFrom(i + 1) => NobodyIsMissed'
         /\ ListIsExact /\ n \in alive /\ n \notin Listed /\ n \notin ReplicasFrom(i + 1)
              => ListIsExact'
<1>1. i' = i + 1 /\ Listed' = Listed \cup {n} /\ Len(nodes) = i /\ i \in Nat
  BY TakeNodeFacts
<1>2. alive \subseteq Listed \cup {n} \cup ReplicasFrom(i + 1) => NobodyIsMissed'
  BY <1>1 DEF NobodyIsMissed, ReplicasFrom, At
<1>3. ASSUME ListIsExact, n \in alive, n \notin Listed, n \notin ReplicasFrom(i + 1)
      PROVE  ListIsExact'
  <2>1. IsFiniteSet(Listed)
    <3>1. IsFiniteSet(ring) /\ Listed \subseteq ring
      BY RingsHoldBoth, <1>3 DEF RInv, TypeOK, ListIsExact
    <3> QED BY <3>1, FS_Subset
  <2>2. Cardinality(Listed \cup {n}) = i + 1
    BY <1>3, <2>1, FS_AddElement DEF ListIsExact
  <2>3. ReplicasFrom(i + 1) \cap Listed = {}
    BY <1>3, ReplicasFromFacts DEF ListIsExact
  <2>4. ListIsExact' = (/\ Listed' \subseteq alive' /\ Cardinality(Listed') = i'
                        /\ ReplicasFrom(i + 1) \cap Listed' = {})
    BY <1>1 DEF ListIsExact, ReplicasFrom, At
  <2> QED BY <1>1, <1>3, <2>2, <2>3, <2>4 DEF ListIsExact
<1> QED BY <1>2, <1>3

\* The steps that take a node; NoneIsLeftOut after each.
LEMMA TakenInTurn ==
  ASSUME AInv, TakeReplica \/ KeepUnavailable
  PROVE  NoneIsLeftOut'
<1> SUFFICES ASSUME steady PROVE NoneIsLeftOut'
  BY DEF TakeReplica, KeepUnavailable, NoneIsLeftOut
<1>1. /\ RInv /\ NoneIsLeftOut /\ pc # "idle"
      /\ TakeNode(At(i)) /\ UNCHANGED <<alive, allNodes>>
      /\ i < Replication /\ i < Len(allNodes) /\ i \in Nat
  <2>1. RInv /\ NoneIsLeftOut /\ i \in Nat
    BY DEF AInv, RInv, TypeOK
  <2>2. CASE TakeReplica
    BY <2>1, <2>2 DEF TakeReplica, Walking
  <2>3. CASE KeepUnavailable
    BY <2>1, <2>3 DEF KeepUnavailable, RInv
  <2> QED BY <2>2, <2>3
<1>2. At(i) \in ring /\ \A k : At(k)' = At(k)
  BY <1>1, OrderFacts DEF At
<1>3. i' = i + 1 /\ pc' = "replica" /\ Listed' = Listed \cup {At(i)}
  BY <1>1, <1>2, TakeNodeFacts
<1>4. \A m \in 0..(i' - 1) : At(m)' \in alive' => At(m)' \in Listed'
  <2>1. \A m \in 0..(i' - 1) : m \in 0..(i - 1) \/ m = i
    BY <1>1, <1>3
  <2> QED BY <1>1, <1>2, <1>3, <2>1 DEF NoneIsLeftOut
<1>5. /\ ReplicasFrom(i) = ReplicasFrom(i + 1) \cup {At(i)}
      /\ At(i) \notin ReplicasFrom(i + 1)
  BY <1>1, ReplicasFromFacts
<1>6. NobodyIsMissed' \/ ListIsExact'
  <2>1. CASE TakeReplica
    <3>1. At(i) \in alive
      BY <1>1, <2>1, AvailableIsAlive DEF TakeReplica
    <3>2. CASE NobodyIsMissed
      <4>1. alive \subseteq Listed \cup {At(i)} \cup ReplicasFrom(i + 1)
        BY <1>5, <3>2 DEF NobodyIsMissed
      <4> QED BY <1>1, <1>2, <4>1, TakeKeepsExact
    <3>3. CASE ListIsExact
      <4>1. At(i) \notin Listed
        BY <1>5, <3>3 DEF ListIsExact
      <4> QED BY <1>1, <1>2, <1>5, <3>1, <3>3, <4>1, TakeKeepsExact
    <3> QED BY <1>1, <3>2, <3>3 DEF NoneIsLeftOut
  <2>2. CASE KeepUnavailable
    <3>1. /\ pc = "candidate" /\ j = Len(allNodes) /\ Len(allNodes) \in Nat
          /\ Replication \in Nat
      BY <1>1, <2>2, OrderFacts, ReplicationIsPositive DEF KeepUnavailable
    <3>2. Replication + j >= Len(allNodes)
      BY <3>1
    <3>3. alive \subseteq Listed \cup ReplicasFrom(i + 1)
      BY <3>1, <3>2, AllCandidatesTried
    <3> QED BY <1>1, <1>2, <3>3, TakeKeepsExact
  <2> QED BY <2>1, <2>2
<1> QED BY <1>3, <1>4, <1>6 DEF NoneIsLeftOut

LEMMA TakenAsReplacement ==
  ASSUME AInv, TakeReplacement
  PROVE  NoneIsLeftOut'
<1> SUFFICES ASSUME steady PROVE NoneIsLeftOut'
  BY DEF TakeReplacement, NoneIsLeftOut
<1> DEFINE c == Candidate
<1>1. /\ RInv /\ NoneIsLeftOut /\ pc = "candidate"
      /\ TakeNode(c) /\ UNCHANGED <<alive, allNodes>>
      /\ isNodeAvailable(c) /\ ~Contains(nodes, c)
      /\ i < Replication /\ i < Len(allNodes) /\ i \in Nat /\ j \in Nat
  BY FS_CardinalityType, RingsHoldBoth DEF AInv, RInv, TypeOK, TakeReplacement
<1>2. /\ Replication \in Nat /\ Len(allNodes) \in Nat /\ c = At(Replication + j)
      /\ c \in ring /\ \A k : At(k)' = At(k)
  <2>1. Replication + j \in Nat /\ Replication \in Nat
    BY <1>1, ReplicationIsPositive
  <2>2. c = At(Replication + j)
    BY DEF Candidate
  <2>3. \A k : At(k)' = At(k)
    BY <1>1 DEF At
  <2> QED BY <1>1, <2>1, <2>2, <2>3, OrderFacts
<1> HIDE DEF c
<1>3. i' = i + 1 /\ pc' = "replica" /\ Listed' = Listed \cup {c} /\ Len(nodes) = i
  BY <1>1, <1>2, TakeNodeFacts
<1>4. At(i) \notin alive /\ c \in alive
  BY <1>1, AvailableIsAlive DEF RInv, PassIsSteady
<1>5. \A m \in 0..(i' - 1) : At(m)' \in alive' => At(m)' \in Listed'
  <2>1. \A m \in 0..(i' - 1) : m \in 0..(i - 1) \/ m = i
    BY <1>1, <1>3
  <2> QED BY <1>1, <1>2, <1>3, <1>4, <2>1 DEF NoneIsLeftOut
<1>6. /\ ReplicasFrom(i) = ReplicasFrom(i + 1) \cup {At(i)}
  BY <1>1, ReplicasFromFacts
<1>7. NobodyIsMissed' \/ ListIsExact'
  <2>1. CASE Replication + j >= Len(allNodes)
    <3>1. alive \subseteq Listed \cup ReplicasFrom(i + 1)
      BY <1>1, <2>1, AllCandidatesTried
    <3> QED BY <1>1, <1>2, <3>1, TakeKeepsExact
  <2>2. CASE Replication + j < Len(allNodes)
    <3>1. CASE NobodyIsMissed
      <4>1. alive \subseteq Listed \cup {c} \cup ReplicasFrom(i + 1)
        BY <1>4, <1>6, <3>1 DEF NobodyIsMissed
      <4> QED BY <1>1, <1>2, <4>1, TakeKeepsExact
    <3>2. CASE ListIsExact
      <4>1. c \notin Listed
        <5>1. DOMAIN nodes = 1..Len(nodes)
          BY <1>1 DEF RInv, TypeOK
        <5> QED BY <1>1, <5>1 DEF Contains, Listed, Range
      <4>2. c \notin ReplicasFrom(i + 1)
        <5>1. \A k \in (i + 1)..(Replication - 1) :
                k < Len(allNodes) => k \in 0..(Len(allNodes) - 1) /\ k # Replication + j
          BY <1>1, <1>2
        <5>2. Replication + j \in 0..(Len(allNodes) - 1)
          BY <1>1, <1>2, <2>2
        <5> QED BY <1>1, <1>2, <5>1, <5>2, OrderFacts DEF ReplicasFrom
      <4> QED BY <1>1, <1>2, <1>4, <3>2, <4>1, <4>2, TakeKeepsExact
    <3> QED BY <1>1, <3>1, <3>2 DEF NoneIsLeftOut
  <2> QED BY <1>1, <1>2, <2>1, <2>2
<1> QED BY <1>3, <1>5, <1>7 DEF NoneIsLeftOut

\* A new pass begins with an empty list.
LEMMA NoneLeftOutAtFirst ==
  ASSUME AInv, BeginPass
  PROVE  NoneIsLeftOut'
<1>1. i' = 0 /\ nodes' = << >> /\ pc' = "replica"
  BY DEF BeginPass
<1>2. Listed' = {}
  BY <1>1 DEF Listed, Range
<1>3. ListIsExact'
  BY <1>1, <1>2, FS_EmptySet DEF ListIsExact
<1>4. \A m \in 0..(i' - 1) : FALSE
  BY <1>1
<1> QED BY <1>1, <1>3, <1>4 DEF NoneIsLeftOut

LEMMA LookingKeepsAll ==
  ASSUME AInv, SeekReplacement \/ SkipCandidate \/ Return \/ UNCHANGED vars
  PROVE  NoneIsLeftOut'
<1> SUFFICES ASSUME steady PROVE NoneIsLeftOut'
  BY DEF NoneIsLeftOut, SeekReplacement, SkipCandidate, Return, vars
<1>1. /\ RInv /\ NoneIsLeftOut /\ i \in Nat
      /\ UNCHANGED <<alive, allNodes, i, nodes>> /\ (pc = "idle" <=> pc' = "idle")
  <2>1. RInv /\ NoneIsLeftOut /\ i \in Nat
    BY DEF AInv, RInv, TypeOK
  <2>2. UNCHANGED <<alive, allNodes, i, nodes>> /\ (pc = "idle" <=> pc' = "idle")
    BY DEF SeekReplacement, Walking, SkipCandidate, Return, PassIsOver, vars
  <2> QED BY <2>1, <2>2
<1>2. (NobodyIsMissed' <=> NobodyIsMissed) /\ (ListIsExact' <=> ListIsExact)
  BY <1>1 DEF NobodyIsMissed, ListIsExact, ReplicasFrom, Listed, At
<1>3. \A k : At(k)' = At(k)
  BY <1>1 DEF At
<1>4. Listed' = Listed
  BY <1>1 DEF Listed
<1>5. pc' = "candidate" =>
        \A k \in 0..(j' - 1) : At(Replication + k) \in alive => At(Replication + k) \in Listed
  <2>1. CASE SeekReplacement
    <3>1. \A k \in 0..(j' - 1) : FALSE
      BY <2>1 DEF SeekReplacement
    <3> QED BY <3>1
  <2>2. CASE SkipCandidate
    <3>1. /\ pc = "candidate" /\ j' = j + 1 /\ j \in Nat
          /\ ~isNodeAvailable(Candidate) \/ Contains(nodes, Candidate)
      BY <1>1, <2>2, FS_CardinalityType, RingsHoldBoth DEF SkipCandidate, RInv, TypeOK
    <3>2. Candidate \notin alive \/ Candidate \in Listed
      <4>1. DOMAIN nodes = 1..Len(nodes)
        BY <1>1 DEF RInv, TypeOK
      <4> QED BY <1>1, <3>1, <4>1, AvailableIsAlive DEF Contains, Listed, Range
    <3>3. \A k \in 0..(j' - 1) : k \in 0..(j - 1) \/ k = j
      BY <3>1
    <3> QED BY <1>1, <3>1, <3>2, <3>3 DEF NoneIsLeftOut, Candidate
  <2>3. CASE Return \/ UNCHANGED vars
    BY <1>1, <2>3 DEF Return, vars, NoneIsLeftOut
  <2> QED BY <2>1, <2>2, <2>3
<1>6. pc' = "done" => i = Replication \/ i = Len(allNodes)
  BY <1>1 DEF SeekReplacement, SkipCandidate, Return, PassIsOver, vars, NoneIsLeftOut
<1> QED BY <1>1, <1>2, <1>3, <1>4, <1>5, <1>6 DEF NoneIsLeftOut

LEMMA AvailableStep == AInv /\ [Next]_vars => AInv'
<1> SUFFICES ASSUME AInv, [Next]_vars PROVE AInv'
  OBVIOUS
<1>1. RInv'
  BY WalkStep DEF AInv
<1>2. NoneIsLeftOut'
  <2>1. CASE \E n \in ring : StatusChanges(n)
    BY <2>1 DEF StatusChanges, NoneIsLeftOut
  <2> QED
    BY <2>1, TakenInTurn, TakenAsReplacement, NoneLeftOutAtFirst, LookingKeepsAll
       DEF Next, Start, TryAgain
<1> QED BY <1>1, <1>2 DEF AInv

\* Nobody who is up is passed by: with statuses that stay put, every available
\* node is in the list or the list is full of available ones.
THEOREM AvailableAreListed == Spec => []ListsAvailable
<1>1. Init => AInv
  <2> SUFFICES ASSUME Init PROVE AInv
    OBVIOUS
  <2>1. \A m \in 0..(i - 1) : FALSE
    BY DEF Init
  <2> QED BY <2>1, WalkInit DEF Init, AInv, NoneIsLeftOut
<1> DEFINE listed == Cardinality(Listed \cap alive)
           up == Cardinality(alive)
<1>2. ASSUME AInv, pc = "done", steady
      PROVE  listed >= IF up < Replication THEN up ELSE Replication
  <2>1. /\ RInv /\ pc # "idle"
        /\ i = Replication \/ i = Len(allNodes)
        /\ NobodyIsMissed \/ ListIsExact
    BY <1>2 DEF AInv, NoneIsLeftOut
  <2>2. up \in Nat /\ up <= Len(allNodes) /\ Len(allNodes) \in Nat /\ Replication \in Nat
    <3>1. IsFiniteSet(ring) /\ alive \subseteq ring
      BY <2>1, RingsHoldBoth DEF RInv, TypeOK
    <3>2. /\ IsFiniteSet(alive) /\ Cardinality(alive) <= Cardinality(ring)
          /\ Cardinality(alive) \in Nat
      BY <3>1, FS_Subset, FS_CardinalityType
    <3> QED BY <2>1, <3>1, <3>2, OrderFacts, ReplicationIsPositive
  <2>3. CASE NobodyIsMissed
    <3>1. Listed \cap alive = alive
      BY <2>1, <2>3, ReplicasFromFacts DEF NobodyIsMissed
    <3>2. listed = up
      BY <3>1
    <3> HIDE DEF listed, up
    <3> QED BY <2>2, <3>2
  <2>4. CASE ListIsExact
    <3>1. Listed \cap alive = Listed /\ Cardinality(Listed) = i
      BY <2>4 DEF ListIsExact
    <3>2. listed = i
      BY <3>1
    <3> HIDE DEF listed, up
    <3> QED BY <2>1, <2>2, <3>2
  <2> QED BY <2>1, <2>3, <2>4
<1>3. AInv => ListsAvailable
  BY <1>2 DEF ListsAvailable
<1> QED BY <1>1, <1>3, AvailableStep, PTL DEF Spec

-----------------------------------------------------------------------------
(* The hash ring *)

HashesOf(s, hashes) == UNION {hashes[m] : m \in s}

NextHash(all, k) ==
  LET after == {h \in all : h >= k}
  IN  IF after = {} THEN Min(all) ELSE Min(after)

\* Ring r has the virtual nodes of the nodes in s and no others, in order.
RingHolds(r, s, hashes) ==
  /\ r.virtualNodes \in Seq(Nat)
  /\ \A p, q \in 1..Len(r.virtualNodes) :
       p <= q => r.virtualNodes[p] <= r.virtualNodes[q]
  /\ HashesOf(s, hashes) = {r.virtualNodes[p] : p \in 1..Len(r.virtualNodes)}
  /\ DOMAIN r.nodeMap = HashesOf(s, hashes)
  /\ \A m \in s : \A h \in hashes[m] : r.nodeMap[h] = m

\* Each virtual node of n stands once in r.
StandsOnce(r, n, hashes) ==
  \A p, q \in 1..Len(r.virtualNodes) :
    r.virtualNodes[p] = r.virtualNodes[q] /\ r.virtualNodes[p] \in hashes[n] => p = q

LEMMA MinFacts ==
  ASSUME NEW T, T \subseteq Nat, T # {}
  PROVE  /\ Min(T) \in T /\ \A y \in T : Min(T) <= y
         /\ \A x \in T : (\A y \in T : x <= y) => x = Min(T)
<1>1. \E x \in T : \A y \in T : x <= y
  BY LeastNatural
<1>2. Min(T) \in T /\ \A y \in T : Min(T) <= y
  BY <1>1 DEF Min
<1>3. ASSUME NEW x \in T, \A y \in T : x <= y PROVE x = Min(T)
  <2>1. x <= Min(T) /\ Min(T) <= x /\ x \in Nat /\ Min(T) \in Nat
    BY <1>2, <1>3
  <2> QED BY <2>1
<1> QED BY <1>2, <1>3

\* A set laid out as a list: every element once.
LEMMA SetToSeqFacts ==
  ASSUME NEW S, IsFiniteSet(S)
  PROVE  /\ SetToSeq(S) \in Seq(S)
         /\ S = {SetToSeq(S)[p] : p \in 1..Len(SetToSeq(S))}
         /\ \A p, q \in 1..Len(SetToSeq(S)) : SetToSeq(S)[p] = SetToSeq(S)[q] => p = q
<1> DEFINE c == Cardinality(S)
<1>1. c \in Nat /\ ExistsBijection(1..c, S)
  BY FS_CardinalityType
<1>2. \E f \in [1..c -> S] : IsInjective(f)
  BY <1>1 DEF ExistsBijection, Bijection, Injection
<1>3. SetToSeq(S) \in [1..c -> S] /\ IsInjective(SetToSeq(S))
  BY <1>2 DEF SetToSeq
<1>4. SetToSeq(S) \in Injection(1..c, S)
  BY <1>3 DEF Injection
<1> HIDE DEF c
<1>5. IsFiniteSet(1..c) /\ Cardinality(1..c) = c
  BY <1>1, FS_Interval
<1>6. Cardinality(1..c) = Cardinality(S)
  BY <1>5 DEF c
<1>7. SetToSeq(S) \in Surjection(1..c, S)
  BY <1>4, <1>5, <1>6, FS_Injection
<1>8. Len(SetToSeq(S)) = c
  BY <1>1, <1>3
<1>9. \A t \in S : \E p \in 1..c : SetToSeq(S)[p] = t
  BY <1>7 DEF Surjection
<1> QED BY <1>1, <1>3, <1>8, <1>9 DEF IsInjective

\* What is appended to a list.
LEMMA ConcatFacts ==
  ASSUME NEW x \in Seq(Nat), NEW y \in Seq(Nat)
  PROVE  /\ x \o y \in Seq(Nat) /\ Len(x \o y) = Len(x) + Len(y)
         /\ \A p \in 1..Len(x) : p \in 1..Len(x \o y) /\ (x \o y)[p] = x[p]
         /\ \A p \in 1..Len(y) :
              Len(x) + p \in 1..Len(x \o y) /\ (x \o y)[Len(x) + p] = y[p]
         /\ \A p \in 1..Len(x \o y) :
              p \in 1..Len(x) \/ (p - Len(x) \in 1..Len(y) /\ p = Len(x) + (p - Len(x)))
  OBVIOUS

\* A sequence over a part of a set is a sequence over the whole of it.
LEMMA SeqOfSubset ==
  ASSUME NEW S, NEW T, S \subseteq T, NEW z \in Seq(S)
  PROVE  z \in Seq(T)
<1>1. /\ Len(z) \in Nat /\ DOMAIN z = 1..Len(z)
      /\ z = [p \in 1..Len(z) |-> z[p]]
      /\ \A p \in 1..Len(z) : z[p] \in S
  OBVIOUS
<1> QED BY <1>1

LEMMA AddNodeHolds ==
  ASSUME NEW members, NEW hashes, HashesAreApart(members, hashes),
         NEW s \in SUBSET members, NEW n \in members,
         NEW r, RingHolds(r, s, hashes)
  PROVE  /\ RingHolds(AddNode(r, n, hashes), s \cup {n}, hashes)
         /\ n \notin s => StandsOnce(AddNode(r, n, hashes), n, hashes)
<1> DEFINE old == r.virtualNodes
           own == SetToSeq(hashes[n])
           list == old \o own
           added == AddNode(r, n, hashes)
           vns == added.virtualNodes
           all == HashesOf(s, hashes)
<1>1. /\ vns = Sorted(list)
      /\ added.nodeMap = [h \in DOMAIN r.nodeMap \cup hashes[n] |->
                            IF h \in hashes[n] THEN n ELSE r.nodeMap[h]]
  BY DEF AddNode
<1>2. /\ own \in Seq(Nat) /\ hashes[n] = {own[p] : p \in 1..Len(own)}
      /\ \A p, q \in 1..Len(own) : own[p] = own[q] => p = q
  <2>1. IsFiniteSet(hashes[n]) /\ hashes[n] \subseteq Nat
    BY DEF HashesAreApart
  <2>2. /\ own \in Seq(hashes[n]) /\ hashes[n] = {own[p] : p \in 1..Len(own)}
        /\ \A p, q \in 1..Len(own) : own[p] = own[q] => p = q
    BY <2>1, SetToSeqFacts
  <2> HIDE DEF own
  <2>3. own \in Seq(Nat)
    BY <2>1, <2>2, SeqOfSubset
  <2> QED BY <2>2, <2>3
<1>3. old \in Seq(Nat) /\ all = {old[p] : p \in 1..Len(old)} /\ DOMAIN r.nodeMap = all
  BY DEF RingHolds
<1>4. HashesOf(s \cup {n}, hashes) = all \cup hashes[n]
  BY DEF HashesOf
<1> HIDE DEF old, own, all, added, vns
<1>5. /\ list \in Seq(Nat) /\ Len(list) \in Nat
      /\ \A p \in 1..Len(old) : p \in 1..Len(list) /\ list[p] = old[p]
      /\ \A p \in 1..Len(own) : Len(old) + p \in 1..Len(list) /\ list[Len(old) + p] = own[p]
      /\ \A p \in 1..Len(list) :
           p \in 1..Len(old) \/ (p - Len(old) \in 1..Len(own) /\ p = Len(old) + (p - Len(old)))
  BY <1>2, <1>3, ConcatFacts
<1> HIDE DEF list
<1>6. all \cup hashes[n] = {list[p] : p \in 1..Len(list)}
  <2>1. ASSUME NEW p \in 1..Len(list) PROVE list[p] \in all \cup hashes[n]
    <3>1. CASE p \in 1..Len(old)
      BY <1>3, <1>5, <3>1
    <3>2. CASE p - Len(old) \in 1..Len(own) /\ p = Len(old) + (p - Len(old))
      <4>1. list[p] = own[p - Len(old)]
        BY <1>5, <3>2
      <4> QED BY <1>2, <3>2, <4>1
    <3> QED BY <1>5, <3>1, <3>2
  <2>2. ASSUME NEW h \in all \cup hashes[n] PROVE \E p \in 1..Len(list) : list[p] = h
    <3>1. CASE h \in all
      BY <1>3, <1>5, <3>1
    <3>2. CASE h \in hashes[n]
      <4>1. PICK p \in 1..Len(own) : own[p] = h
        BY <1>2, <3>2
      <4> QED BY <1>5, <4>1
    <3> QED BY <3>1, <3>2
  <2> QED BY <2>1, <2>2
<1>7. /\ vns \in Seq(Nat) /\ Len(vns) = Len(list)
      /\ \A k, l \in 1..Len(list) : k <= l => vns[k] <= vns[l]
      /\ \A p \in 1..Len(list) : \E k \in 1..Len(list) : vns[k] = list[p]
      /\ \E from \in [1..Len(list) -> 1..Len(list)] :
           /\ \A k \in 1..Len(list) : vns[k] = list[from[k]]
           /\ \A k, l \in 1..Len(list) : from[k] = from[l] => k = l
  <2>1. list \in Seq(Nat)
    BY <1>5
  <2> DEFINE result == Sorted(list)
  <2>2. /\ result \in Seq(Nat) /\ Len(result) = Len(list)
        /\ \A k, l \in 1..Len(list) : k <= l => result[k] <= result[l]
        /\ \A p \in 1..Len(list) : \E k \in 1..Len(list) : result[k] = list[p]
        /\ \E from \in [1..Len(list) -> 1..Len(list)] :
             /\ \A k \in 1..Len(list) : result[k] = list[from[k]]
             /\ \A k, l \in 1..Len(list) : from[k] = from[l] => k = l
    BY <2>1, SortedFacts
  <2>3. vns = result
    BY <1>1
  <2> HIDE DEF result
  <2> QED BY <2>2, <2>3
<1>8. PICK from \in [1..Len(list) -> 1..Len(list)] :
        /\ \A k \in 1..Len(list) : vns[k] = list[from[k]]
        /\ \A k, l \in 1..Len(list) : from[k] = from[l] => k = l
  BY <1>7
<1>9. all \cup hashes[n] = {vns[p] : p \in 1..Len(vns)}
  <2> DEFINE d == 1..Len(list)
  <2>1. /\ \A k \in d : from[k] \in d /\ vns[k] = list[from[k]]
        /\ \A p \in d : \E k \in d : vns[k] = list[p]
        /\ all \cup hashes[n] = {list[p] : p \in d}
        /\ 1..Len(vns) = d
    BY <1>6, <1>7, <1>8
  <2> HIDE DEF d
  <2>2. \A k \in d : vns[k] \in all \cup hashes[n]
    BY <2>1
  <2>3. \A h \in all \cup hashes[n] : \E k \in d : vns[k] = h
    BY <2>1
  <2> QED BY <2>1, <2>2, <2>3
<1>10. \A m \in s \cup {n} : \A h \in hashes[m] : added.nodeMap[h] = m
  <2> SUFFICES ASSUME NEW m \in s \cup {n}, NEW h \in hashes[m]
               PROVE  added.nodeMap[h] = m
    OBVIOUS
  <2>1. CASE m = n
    BY <1>1, <2>1
  <2>2. CASE m # n
    <3>1. h \notin hashes[n]
      BY <2>2 DEF HashesAreApart
    <3>2. m \in s /\ h \in all /\ r.nodeMap[h] = m
      BY <2>2 DEF RingHolds, HashesOf, all
    <3> QED BY <1>1, <1>3, <3>1, <3>2
  <2> QED BY <2>1, <2>2
<1>11. DOMAIN added.nodeMap = all \cup hashes[n]
  BY <1>1, <1>3
<1>12. RingHolds(added, s \cup {n}, hashes)
  BY <1>4, <1>7, <1>9, <1>10, <1>11 DEF RingHolds, vns
<1>13. ASSUME n \notin s PROVE StandsOnce(added, n, hashes)
  <2>1. all \cap hashes[n] = {}
    BY <1>13 DEF all, HashesOf, HashesAreApart
  <2>2. ASSUME NEW p \in 1..Len(list), list[p] \in hashes[n]
        PROVE  p - Len(old) \in 1..Len(own) /\ list[p] = own[p - Len(old)]
    <3>1. p \notin 1..Len(old)
      BY <1>3, <1>5, <2>1, <2>2
    <3> QED BY <1>5, <3>1
  <2>3. ASSUME NEW p \in 1..Len(list), NEW q \in 1..Len(list), list[p] = list[q],
               list[p] \in hashes[n]
        PROVE  p = q
    <3>1. p - Len(old) = q - Len(old)
      BY <1>2, <2>2, <2>3
    <3> QED BY <1>3, <3>1
  <2>4. ASSUME NEW p \in 1..Len(vns), NEW q \in 1..Len(vns), vns[p] = vns[q],
               vns[p] \in hashes[n]
        PROVE  p = q
    <3>1. /\ p \in 1..Len(list) /\ q \in 1..Len(list)
          /\ from[p] \in 1..Len(list) /\ from[q] \in 1..Len(list)
          /\ vns[p] = list[from[p]] /\ vns[q] = list[from[q]]
      BY <1>7, <1>8
    <3>2. from[p] = from[q]
      BY <2>3, <2>4, <3>1
    <3> QED BY <1>8, <3>1, <3>2
  <2> QED BY <2>4 DEF StandsOnce, vns
<1> QED BY <1>12, <1>13 DEF added

LEMMA RemoveNodeHolds ==
  ASSUME NEW members, NEW hashes, HashesAreApart(members, hashes),
         NEW s \in SUBSET members, NEW n \in s,
         NEW r, RingHolds(r, s, hashes), StandsOnce(r, n, hashes)
  PROVE  RingHolds(RemoveNode(r, n), s \ {n}, hashes)
<1> DEFINE old == r.virtualNodes
           removed == RemoveNode(r, n)
           kept == {p \in DOMAIN old : OwnerOf(r, old[p]) # n
                                        \/ \E q \in 1..(p - 1) : old[q] = old[p]}
           vns == EntriesAt(old, kept)
           all == HashesOf(s, hashes)
           rest == HashesOf(s \ {n}, hashes)
<1>1. /\ removed.virtualNodes = vns
      /\ removed.nodeMap = [h \in {g \in DOMAIN r.nodeMap : r.nodeMap[g] # n} |-> r.nodeMap[h]]
  BY DEF RemoveNode
<1>2. /\ old \in Seq(Nat) /\ \A p, q \in 1..Len(old) : p <= q => old[p] <= old[q]
      /\ all = {old[p] : p \in 1..Len(old)} /\ DOMAIN r.nodeMap = all
      /\ \A m \in s : \A h \in hashes[m] : r.nodeMap[h] = m
      /\ DOMAIN old = 1..Len(old)
  BY DEF RingHolds
<1>3. \A h \in all : (h \in rest <=> r.nodeMap[h] # n) /\ (h \in hashes[n] <=> r.nodeMap[h] = n)
  <2> SUFFICES ASSUME NEW h \in all
               PROVE  /\ h \in rest <=> r.nodeMap[h] # n
                      /\ h \in hashes[n] <=> r.nodeMap[h] = n
    OBVIOUS
  <2>1. PICK m \in s : h \in hashes[m]
    BY DEF HashesOf
  <2>2. r.nodeMap[h] = m
    BY <1>2, <2>1
  <2>3. h \in hashes[n] <=> m = n
    BY <2>1 DEF HashesAreApart
  <2>4. h \in rest <=> m # n
    BY <2>1 DEF HashesOf, HashesAreApart
  <2> QED BY <2>2, <2>3, <2>4
<1>4. rest \subseteq all
  BY DEF HashesOf
<1>5. \A p \in 1..Len(old) : p \in kept <=> old[p] \in rest
  <2> SUFFICES ASSUME NEW p \in 1..Len(old) PROVE p \in kept <=> old[p] \in rest
    OBVIOUS
  <2>1. old[p] \in all /\ OwnerOf(r, old[p]) = r.nodeMap[old[p]]
    BY <1>2 DEF OwnerOf
  <2>2. CASE old[p] \in hashes[n]
    <3>1. \A q \in 1..(p - 1) : q \in 1..Len(old) /\ q # p
      BY <1>2
    <3>2. \A q \in 1..(p - 1) : old[q] # old[p]
      BY <2>2, <3>1 DEF StandsOnce
    <3> QED BY <1>2, <1>3, <2>1, <2>2, <3>2
  <2>3. CASE old[p] \notin hashes[n]
    BY <1>2, <1>3, <2>1, <2>3
  <2> QED BY <2>2, <2>3
<1>6. kept \in SUBSET (1..Len(old))
  BY <1>2
<1> DEFINE c == Cardinality(kept)
<1> HIDE DEF old, kept, vns, all, rest, removed, c
<1>7. /\ vns \in Seq(Nat) /\ Len(vns) = c /\ c \in Nat
      /\ \A k \in 1..c : \E p \in kept : PlaceAmong(p, kept) = k /\ vns[k] = old[p]
      /\ \A p \in kept : PlaceAmong(p, kept) \in 1..c /\ vns[PlaceAmong(p, kept)] = old[p]
  BY <1>2, <1>6, EntriesAtFacts DEF vns, c
<1>8. \A p, q \in kept : PlaceAmong(p, kept) <= PlaceAmong(q, kept) <=> p <= q
  <2>1. Len(old) \in Nat
    BY <1>2
  <2> QED BY <1>6, <2>1, PlacesAreNumbered
<1>9. \A k, l \in 1..c : k <= l => vns[k] <= vns[l]
  BY <1>2, <1>6, <1>7, <1>8
<1>10. rest = {vns[k] : k \in 1..c}
  <2>1. \A k \in 1..c : vns[k] \in rest
    BY <1>5, <1>6, <1>7
  <2>2. ASSUME NEW h \in rest PROVE \E k \in 1..c : vns[k] = h
    <3>1. PICK p \in 1..Len(old) : old[p] = h
      BY <1>2, <1>4
    <3> QED BY <1>5, <1>7, <3>1
  <2> QED BY <2>1, <2>2
<1>11. DOMAIN removed.nodeMap = rest /\ \A h \in rest : removed.nodeMap[h] = r.nodeMap[h]
  BY <1>1, <1>2, <1>3, <1>4
<1>12. \A m \in s \ {n} : \A h \in hashes[m] : removed.nodeMap[h] = m
  BY <1>2, <1>11 DEF rest, HashesOf
<1>13. 1..Len(removed.virtualNodes) = 1..c /\ removed.virtualNodes = vns
  BY <1>1, <1>7
<1>14. RingHolds(removed, s \ {n}, hashes)
  <2>1. /\ removed.virtualNodes \in Seq(Nat)
        /\ \A p, q \in 1..Len(removed.virtualNodes) :
             p <= q => removed.virtualNodes[p] <= removed.virtualNodes[q]
    BY <1>7, <1>9, <1>13
  <2>2. rest = {removed.virtualNodes[p] : p \in 1..Len(removed.virtualNodes)}
    BY <1>10, <1>13
  <2> QED BY <1>11, <1>12, <2>1, <2>2 DEF RingHolds, rest
<1> QED BY <1>14 DEF removed

\* A ring finds the node with the next virtual node, and so do all rings with
\* the same nodes.
LEMMA GetNodeFacts ==
  ASSUME NEW members, NEW hashes, HashesAreApart(members, hashes),
         NEW s \in SUBSET members, NEW r, RingHolds(r, s, hashes), NEW k \in Nat
  PROVE  LET all == HashesOf(s, hashes)  g == GetNode(r, k) IN
         /\ all = {} => g = NoNode
         /\ all # {} => g \in s /\ NextHash(all, k) \in hashes[g]
<1> DEFINE vns == r.virtualNodes
           all == HashesOf(s, hashes)
           found == {p \in DOMAIN vns : vns[p] >= k}
           from == IF found = {} THEN 1 ELSE Min(found)
           after == {h \in all : h >= k}
<1>1. /\ vns \in Seq(Nat) /\ \A p, q \in 1..Len(vns) : p <= q => vns[p] <= vns[q]
      /\ all = {vns[p] : p \in 1..Len(vns)} /\ DOMAIN r.nodeMap = all
      /\ \A m \in s : \A h \in hashes[m] : r.nodeMap[h] = m
      /\ DOMAIN vns = 1..Len(vns) /\ Len(vns) \in Nat
  BY DEF RingHolds
<1>2. GetNode(r, k) = IF vns = << >> THEN NoNode ELSE OwnerOf(r, vns[from])
  BY DEF GetNode
<1> HIDE DEF vns, all
<1>3. vns = << >> <=> all = {}
  <2>1. ASSUME all = {} PROVE vns = << >>
    <3>1. ASSUME 1 \in 1..Len(vns) PROVE FALSE
      <4>1. vns[1] \in all
        BY <1>1, <3>1
      <4> QED BY <2>1, <4>1
    <3>2. Len(vns) = 0
      BY <1>1, <3>1
    <3> QED BY <1>1, <3>2
  <2>2. ASSUME vns = << >> PROVE all = {}
    <3>1. Len(vns) = 0
      BY <2>2
    <3> HIDE DEF vns
    <3>2. 1..Len(vns) = {}
      BY <3>1
    <3> QED BY <1>1, <3>2
  <2> QED BY <2>1, <2>2
<1>4. ASSUME all # {}
      PROVE  from \in 1..Len(vns) /\ vns[from] = NextHash(all, k)
  <2>1. all \subseteq Nat /\ 1 \in 1..Len(vns)
    <3>1. Len(vns) # 0
      BY <1>1, <1>4
    <3> QED BY <1>1, <3>1
  <2>2. after = {} <=> found = {}
    BY <1>1
  <2>3. CASE found = {}
    <3>1. vns[1] \in all /\ \A h \in all : vns[1] <= h
      BY <1>1, <2>1
    <3>2. vns[1] = Min(all)
      BY <1>4, <2>1, <3>1, MinFacts
    <3> QED BY <2>1, <2>2, <2>3, <3>2 DEF NextHash
  <2>4. CASE found # {}
    <3> DEFINE p == Min(found)
    <3>1. found \subseteq Nat /\ found # {}
      BY <1>1, <2>4
    <3>2. p \in found /\ \A q \in found : p <= q
      <4> HIDE DEF found
      <4> QED BY <3>1, MinFacts
    <3> HIDE DEF p
    <3>3. vns[p] \in after /\ p \in 1..Len(vns)
      BY <1>1, <3>2
    <3>4. \A h \in after : vns[p] <= h
      <4> SUFFICES ASSUME NEW h \in after PROVE vns[p] <= h
        OBVIOUS
      <4>1. PICK q \in 1..Len(vns) : vns[q] = h
        BY <1>1
      <4>2. q \in found
        BY <1>1, <4>1
      <4> QED BY <1>1, <3>2, <3>3, <4>1, <4>2
    <3>5. after \subseteq Nat /\ after # {}
      BY <2>1, <3>3
    <3>6. vns[p] = Min(after)
      <4> HIDE DEF after
      <4> QED BY <3>3, <3>4, <3>5, MinFacts
    <3>7. from = p
      BY <2>4 DEF p
    <3> QED BY <2>2, <2>4, <3>3, <3>6, <3>7 DEF NextHash
  <2> QED BY <2>3, <2>4
<1> HIDE DEF from
<1>5. ASSUME all # {} PROVE GetNode(r, k) \in s /\ NextHash(all, k) \in hashes[GetNode(r, k)]
  <2>1. GetNode(r, k) = OwnerOf(r, NextHash(all, k)) /\ NextHash(all, k) \in all
    BY <1>1, <1>2, <1>3, <1>4, <1>5
  <2>2. PICK m \in s : NextHash(all, k) \in hashes[m]
    BY <2>1 DEF all, HashesOf
  <2>3. GetNode(r, k) = m
    BY <1>1, <2>1, <2>2 DEF OwnerOf
  <2> QED BY <2>2, <2>3
<1> QED BY <1>2, <1>3, <1>5 DEF all

\* Whatever the order, a ring has the nodes that were added.
LEMMA RingOfHolds ==
  ASSUME NEW members, NEW hashes, HashesAreApart(members, hashes),
         NEW order \in Seq(members)
  PROVE  RingHolds(RingOf(order, hashes), Range(order), hashes)
<1> DEFINE N == Len(order)
           Rungs(f, m) ==
             f = [k \in 0..m |-> IF k = 0 THEN NewConsistentHashRing
                                 ELSE AddNode(f[k - 1], order[k], hashes)]
           rings == CHOOSE f : Rungs(f, N)
           upTo(k) == {order[p] : p \in 1..k}
<1>1. N \in Nat /\ \A p \in 1..N : order[p] \in members
  OBVIOUS
<1>2. ASSUME NEW m \in Nat
      PROVE  \E f : Rungs(f, m)
  <2> DEFINE Bad == {l \in Nat : ~ \E f : Rungs(f, l)}
  <2> SUFFICES ASSUME Bad # {} PROVE FALSE
    BY DEF Bad
  <2>1. PICK l \in Bad : \A o \in Bad : l <= o
    BY LeastNatural
  <2>2. CASE l = 0
    <3>1. Rungs([o \in 0..0 |-> NewConsistentHashRing], 0)
      OBVIOUS
    <3> QED BY <2>1, <2>2, <3>1
  <2>3. CASE l # 0
    <3>1. l - 1 \in Nat /\ ~(l <= l - 1)
      BY <2>1, <2>3
    <3>2. l - 1 \notin Bad
      <4> HIDE DEF Bad
      <4> QED BY <2>1, <3>1
    <3>3. PICK f : Rungs(f, l - 1)
      BY <3>1, <3>2
    <3> DEFINE g == [o \in 0..l |-> IF o = 0 THEN NewConsistentHashRing
                                    ELSE AddNode(f[o - 1], order[o], hashes)]
    <3>4. \A o \in 0..(l - 1) : g[o] = f[o]
      BY <2>1, <3>1, <3>3
    <3>5. \A o \in 0..l : o # 0 => o - 1 \in 0..(l - 1)
      BY <2>1
    <3>6. Rungs(g, l)
      <4>1. \A o \in 0..l : o # 0 => g[o - 1] = f[o - 1]
        BY <3>4, <3>5
      <4> QED BY <4>1
    <3> QED BY <2>1, <3>6
  <2> QED BY <2>2, <2>3
<1>3. Rungs(rings, N)
  <2> HIDE DEF Rungs
  <2> QED BY <1>1, <1>2
<1>4. RingOf(order, hashes) = rings[N]
  BY DEF RingOf
<1> HIDE DEF rings
<1>5. rings[0] = NewConsistentHashRing
  BY <1>1, <1>3
<1>6. ASSUME NEW k \in 1..N PROVE rings[k] = AddNode(rings[k - 1], order[k], hashes)
  BY <1>1, <1>3
<1>7. ASSUME NEW k \in 0..N PROVE RingHolds(rings[k], upTo(k), hashes)
  <2> DEFINE Bad == {l \in 0..N : ~RingHolds(rings[l], upTo(l), hashes)}
  <2> SUFFICES ASSUME Bad # {} PROVE FALSE
    BY <1>7 DEF Bad
  <2>1. PICK l \in Bad : \A o \in Bad : l <= o
    <3>1. Bad \subseteq Nat
      BY <1>1
    <3> HIDE DEF Bad
    <3> QED BY <3>1, LeastNatural
  <2>2. CASE l = 0
    <3>1. rings[0].virtualNodes = << >> /\ rings[0].nodeMap = << >>
      BY <1>5 DEF NewConsistentHashRing
    <3>2. upTo(0) = {}
      OBVIOUS
    <3>3. HashesOf({}, hashes) = {}
      BY DEF HashesOf
    <3>4. RingHolds(rings[0], {}, hashes)
      BY <3>1, <3>3 DEF RingHolds
    <3> QED BY <2>1, <2>2, <3>2, <3>4
  <2>3. CASE l # 0
    <3>1. l \in 1..N /\ l - 1 \in 0..N /\ ~(l <= l - 1)
      BY <1>1, <2>1, <2>3
    <3>2. RingHolds(rings[l - 1], upTo(l - 1), hashes)
      BY <2>1, <3>1
    <3>3. /\ upTo(l - 1) \in SUBSET members /\ order[l] \in members
          /\ upTo(l) = upTo(l - 1) \cup {order[l]}
      BY <1>1, <3>1
    <3>4. RingHolds(AddNode(rings[l - 1], order[l], hashes), upTo(l), hashes)
      <4> DEFINE was == upTo(l - 1)
                 added == order[l]
      <4>1. was \in SUBSET members /\ added \in members /\ RingHolds(rings[l - 1], was, hashes)
        BY <3>2, <3>3
      <4> HIDE DEF was, added
      <4>2. RingHolds(AddNode(rings[l - 1], added, hashes), was \cup {added}, hashes)
        BY <4>1, AddNodeHolds
      <4> QED BY <3>3, <4>2 DEF was, added
    <3> QED BY <1>6, <2>1, <3>1, <3>4
  <2> QED BY <2>2, <2>3
<1>8. upTo(N) = Range(order)
  BY DEF Range
<1>9. N \in 0..N
  BY <1>1
<1>10. RingHolds(rings[N], upTo(N), hashes)
  BY <1>7, <1>9
<1> HIDE DEF upTo, N
<1> QED BY <1>4, <1>8, <1>10

LEMMA SamePrimaryFacts ==
  ASSUME NEW members, members # {}, NEW hashes, HashesAreApart(members, hashes),
         \A m \in members : hashes[m] # {},
         NEW orders, \A o \in orders : o \in Seq(members) /\ Range(o) = members,
         NEW keys \in SUBSET Nat
  PROVE  SamePrimary(members, orders, hashes, keys)
<1> DEFINE all == HashesOf(members, hashes)
<1>1. all # {}
  BY DEF HashesOf
<1>2. ASSUME NEW o \in orders, NEW k \in keys
      PROVE  NextHash(all, k) \in hashes[GetNode(RingOf(o, hashes), k)]
  <2>1. RingHolds(RingOf(o, hashes), members, hashes)
    BY RingOfHolds
  <2>2. k \in Nat /\ members \in SUBSET members
    OBVIOUS
  <2> QED BY <1>1, <2>1, <2>2, GetNodeFacts
<1>3. all = UNION {hashes[m] : m \in members}
  BY DEF HashesOf
<1> HIDE DEF all
<1> QED BY <1>2, <1>3 DEF SamePrimary, NextHash

\* Processes that have learnt of the same members, in whatever order and how
\* often, agree on the primary of every key, for any nodes and hashes: about
\* main, which adds itself first and its peers as its file lists them.
THEOREM PrimariesAreAgreed == Spec => []OnePrimary
<1>1. ASSUME NEW p \in Placements
      PROVE  SamePrimary(Members, MemberOrders, p, KeyHashes)
  <2>1. /\ HashesAreApart(Members, p) /\ \A m \in Members : p[m] # {}
        /\ Members # {} /\ KeyHashes \in SUBSET Nat
        /\ \A o \in MemberOrders : o \in Seq(Members) /\ Range(o) = Members
    BY PlacementsAreSound, OrdersAreOfMembers, HashesAreNumbers
  <2> QED BY <2>1, SamePrimaryFacts
<1>2. OnePrimary
  BY <1>1 DEF OnePrimary, Disagreed
<1> QED BY <1>2, PTL

LEMMA OnlyTheJoinerGainsFacts ==
  ASSUME NEW members, NEW hashes, HashesAreApart(members, hashes),
         NEW others \in Seq(members), NEW n \in members \ Range(others),
         NEW keys \in SUBSET Nat
  PROVE  OnlyTheJoinerGains(n, others, hashes, keys)
<1> DEFINE s == Range(others)
           without == RingOf(others, hashes)
           joined == AddNode(without, n, hashes)
           left == RemoveNode(joined, n)
           old == HashesOf(s, hashes)
           new == HashesOf(s \cup {n}, hashes)
<1>1. s \in SUBSET members /\ n \in members /\ n \notin s
  BY DEF Range
<1>2. RingHolds(without, s, hashes)
  BY RingOfHolds
<1> HIDE DEF s, without
<1>3. RingHolds(joined, s \cup {n}, hashes) /\ StandsOnce(joined, n, hashes)
  BY <1>1, <1>2, AddNodeHolds
<1>4. s \cup {n} \in SUBSET members /\ n \in s \cup {n} /\ (s \cup {n}) \ {n} = s
  BY <1>1
<1> HIDE DEF joined
<1>5. RingHolds(left, s, hashes)
  <2>1. RingHolds(left, (s \cup {n}) \ {n}, hashes)
    BY <1>3, <1>4, RemoveNodeHolds
  <2> QED BY <1>4, <2>1
<1> HIDE DEF left
<1>6. new = old \cup hashes[n] /\ new \subseteq Nat
  BY <1>1 DEF HashesOf, HashesAreApart
<1>7. ASSUME NEW k \in keys
      PROVE  /\ GetNode(joined, k) \in {n, GetNode(without, k)}
             /\ GetNode(left, k) = GetNode(without, k)
  <2> DEFINE was == GetNode(without, k)
             is == GetNode(joined, k)
             back == GetNode(left, k)
  <2>1. k \in Nat
    OBVIOUS
  <2>2. (old = {} => was = NoNode) /\ (old # {} => was \in s /\ NextHash(old, k) \in hashes[was])
    BY <1>1, <1>2, <2>1, GetNodeFacts
  <2>3. (old = {} => back = NoNode) /\ (old # {} => back \in s /\ NextHash(old, k) \in hashes[back])
    BY <1>1, <1>5, <2>1, GetNodeFacts
  <2>4. (new = {} => is = NoNode)
        /\ (new # {} => is \in s \cup {n} /\ NextHash(new, k) \in hashes[is])
    BY <1>3, <1>4, <2>1, GetNodeFacts
  <2> HIDE DEF was, is, back
  <2>5. back = was
    BY <1>1, <2>2, <2>3 DEF HashesAreApart
  <2>6. ASSUME new # {}, is # n PROVE is = was
    <3> DEFINE h == NextHash(new, k)
    <3>1. is \in s /\ h \in hashes[is] /\ h \in old
      BY <2>4, <2>6 DEF old, HashesOf
    <3>2. h = NextHash(old, k)
      <4> DEFINE afterOld == {g \in old : g >= k}
                 afterNew == {g \in new : g >= k}
      <4>1. old \subseteq Nat /\ afterOld \subseteq Nat /\ afterNew \subseteq Nat
            /\ afterOld \subseteq afterNew /\ old \subseteq new /\ old # {}
        BY <1>6, <3>1
      <4>2. CASE afterNew = {}
        <5>1. h = Min(new) /\ NextHash(old, k) = Min(old)
          BY <4>1, <4>2 DEF NextHash
        <5> HIDE DEF h, new, old
        <5>2. \A g \in old : h <= g
          BY <1>6, <2>6, <4>1, <5>1, MinFacts
        <5> QED BY <3>1, <4>1, <5>1, <5>2, MinFacts
      <4>3. CASE afterNew # {}
        <5>1. h = Min(afterNew)
          BY <4>3 DEF NextHash
        <5>2. h \in afterNew /\ \A g \in afterNew : h <= g
          <6> HIDE DEF afterNew, h
          <6> QED BY <4>1, <4>3, <5>1, MinFacts
        <5> HIDE DEF h
        <5>3. h \in afterOld /\ \A g \in afterOld : h <= g
          BY <3>1, <4>1, <5>2
        <5>4. h = Min(afterOld)
          <6> HIDE DEF afterOld
          <6> QED BY <4>1, <5>3, MinFacts
        <5>5. NextHash(old, k) = Min(afterOld)
          BY <5>3 DEF NextHash
        <5> QED BY <5>4, <5>5
      <4> QED BY <4>2, <4>3
    <3> HIDE DEF h
    <3>3. was \in s /\ h \in hashes[was]
      BY <2>2, <3>1, <3>2
    <3> QED BY <1>1, <3>1, <3>3 DEF HashesAreApart
  <2>7. ASSUME new = {} PROVE is = was
    BY <1>6, <2>2, <2>4, <2>7
  <2>8. is \in {n, was}
    BY <2>6, <2>7
  <2> QED BY <2>5, <2>8 DEF was, is, back
<1> QED BY <1>7 DEF OnlyTheJoinerGains, without, joined, left

\* A node that joins takes over keys and moves none between the others, and
\* when it leaves every key is back where it was, for any nodes and hashes:
\* about AddNode and RemoveNode.
THEOREM JoinersTakeTheirOwn == Spec => []JoiningMovesLittle
<1>1. ASSUME NEW p \in Placements, NEW o \in EarlierOrders, NEW n \in Members \ Range(o)
      PROVE  OnlyTheJoinerGains(n, o, p, KeyHashes)
  <2>1. /\ HashesAreApart(Members, p) /\ o \in Seq(Members) /\ KeyHashes \in SUBSET Nat
    BY PlacementsAreSound, OrdersAreOfMembers, HashesAreNumbers
  <2> QED BY <2>1, OnlyTheJoinerGainsFacts
<1>2. JoiningMovesLittle
  BY <1>1 DEF JoiningMovesLittle, Upset
<1> QED BY <1>2, PTL
=============================================================================
