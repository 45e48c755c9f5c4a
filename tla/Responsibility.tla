--------------------------- MODULE Responsibility ---------------------------
(* How a coordinator finds the nodes for a request: getResponsibleNodes and  *)
(* determineResponsibleNodes (node.go), always called with sloppy = true.    *)
(* The walk takes no lock: each availability it asks for is read when it is  *)
(* needed, and the gossip goroutines change them meanwhile.                  *)
(*                                                                           *)
(* getAllNodeIDs ranges over a Go map, so every pass walks the nodes in an   *)
(* order of its own; only the primary, found by hash, is always the same.    *)
EXTENDS Naturals, Sequences, FiniteSets, SequencesExt, HashRing

CONSTANTS
  Rings,            \* the clusters to consider, each the set of its nodes
  Self,             \* the coordinator
  Primary,          \* Ring.GetNode(key)
  Replication,
  maxRetryAttempts

ASSUME RingsHoldBoth ==
  \A r \in Rings : IsFiniteSet(r) /\ {Self, Primary} \subseteq r
ASSUME ReplicationIsPositive == Replication \in Nat \ {0}
ASSUME RetriesArePositive == maxRetryAttempts \in Nat \ {0}

VARIABLES
  ring,          \* the nodes of the ring; main adds them before it serves
  alive,         \* members whose status is alive, the coordinator included
  pc,            \* "idle", "replica", "candidate", "done"
  attempt,       \* the pass of getResponsibleNodes
  allNodes,      \* the order of this pass, from the primary on
  i, j,          \* the two loop counters
  nodes,
  replacements,  \* replacementMap, as pairs <<original, replacement>>
  steady         \* history: no status has changed during this pass

vars == <<ring, alive, pc, attempt, allNodes, i, j, nodes, replacements, steady>>

Orders == {o \in [1..Cardinality(ring) -> ring] :
             o[1] = Primary /\ \A a, b \in DOMAIN o : o[a] = o[b] => a = b}

\* The node k places after the primary, round the ring.
At(k) == allNodes[(k % Len(allNodes)) + 1]

TypeOK ==
  /\ ring \in Rings
  /\ Self \in alive /\ alive \subseteq ring
  /\ pc \in {"idle", "replica", "candidate", "done"}
  /\ attempt \in 0..(maxRetryAttempts - 1)
  /\ allNodes \in Orders \cup {<< >>}
  /\ i \in 0..Replication /\ j \in 0..Cardinality(ring)
  /\ nodes \in Seq(ring) /\ Len(nodes) = i
  /\ replacements \subseteq ring \X ring
  /\ steady \in BOOLEAN

\* NewGossipService takes every member for alive.
Init ==
  /\ ring \in Rings
  /\ alive = ring
  /\ pc = "idle" /\ attempt = 0
  /\ allNodes = << >> /\ i = 0 /\ j = 0
  /\ nodes = << >> /\ replacements = {}
  /\ steady = TRUE

\* Of the node itself, or of a member; a node that is no member, whom
\* getNodeStatus would take in as suspected, is not in the ring.
getNodeStatusIsAlive(n) == n = Self \/ n \in alive

isNodeAvailable(n) == n = Self \/ getNodeStatusIsAlive(n)

\* Gossip changes its mind about a member.
StatusChanges(n) ==
  /\ n # Self
  /\ alive' = IF n \in alive THEN alive \ {n} ELSE alive \cup {n}
  /\ steady' = FALSE
  /\ UNCHANGED <<ring, pc, attempt, allNodes, i, j, nodes, replacements>>

BeginPass ==
  /\ allNodes' \in Orders
  /\ pc' = "replica"
  /\ i' = 0 /\ j' = 0 /\ nodes' = << >> /\ replacements' = {}
  /\ steady' = TRUE
  /\ UNCHANGED <<ring, alive>>

Start == pc = "idle" /\ BeginPass /\ UNCHANGED attempt

\* Mutant: a small ring is walked round until the list is full.
WalkingOn == pc = "replica" /\ i < Replication

Walking == pc = "replica" /\ i < Replication /\ i < Len(allNodes)

TakeNode(n) ==
  /\ nodes' = Append(nodes, n)
  /\ i' = i + 1
  /\ pc' = "replica"

TakeReplica ==
  /\ Walking
  /\ isNodeAvailable(At(i))
  /\ TakeNode(At(i))
  /\ UNCHANGED <<ring, alive, attempt, allNodes, j, replacements, steady>>

SeekReplacement ==
  /\ Walking
  /\ ~isNodeAvailable(At(i))
  /\ pc' = "candidate" /\ j' = 0
  /\ UNCHANGED <<ring, alive, attempt, allNodes, i, nodes, replacements, steady>>

Candidate == At(Replication + j)

\* Mutant: a candidate that is already in the list is taken as well.
TakeReplacementTwice ==
  /\ pc = "candidate" /\ j < Len(allNodes)
  /\ isNodeAvailable(Candidate)
  /\ replacements' = replacements \cup {<<At(i), Candidate>>}
  /\ TakeNode(Candidate)
  /\ UNCHANGED <<ring, alive, attempt, allNodes, j, steady>>

\* Mutant: the candidate's status is not asked for.
TakeReplacementUnasked ==
  /\ pc = "candidate" /\ j < Len(allNodes)
  /\ ~Contains(nodes, Candidate)
  /\ replacements' = replacements \cup {<<At(i), Candidate>>}
  /\ TakeNode(Candidate)
  /\ UNCHANGED <<ring, alive, attempt, allNodes, j, steady>>

TakeReplacement ==
  /\ pc = "candidate" /\ j < Len(allNodes)
  /\ isNodeAvailable(Candidate) /\ ~Contains(nodes, Candidate)
  /\ replacements' = replacements \cup {<<At(i), Candidate>>}
  /\ TakeNode(Candidate)
  /\ UNCHANGED <<ring, alive, attempt, allNodes, j, steady>>

SkipCandidate ==
  /\ pc = "candidate" /\ j < Len(allNodes)
  /\ ~isNodeAvailable(Candidate) \/ Contains(nodes, Candidate)
  /\ j' = j + 1
  /\ UNCHANGED <<ring, alive, pc, attempt, allNodes, i, nodes, replacements,
                 steady>>

\* No replacement anywhere: the unavailable node stays in the list.
KeepUnavailable ==
  /\ pc = "candidate" /\ j = Len(allNodes)
  /\ TakeNode(At(i))
  /\ UNCHANGED <<ring, alive, attempt, allNodes, j, replacements, steady>>

PassIsOver == pc = "replica" /\ (i = Replication \/ i = Len(allNodes))

\* Mutant: it is walked again until it has grown.
TryAgainForEver ==
  /\ PassIsOver
  /\ Len(nodes) < Replication
  /\ attempt' = attempt + 1
  /\ BeginPass

\* A ring that is too small is walked again, in vain, and used as it is.
TryAgain ==
  /\ PassIsOver
  /\ Len(nodes) < Replication /\ attempt + 1 < maxRetryAttempts
  /\ attempt' = attempt + 1
  /\ BeginPass

Return ==
  /\ PassIsOver
  /\ Len(nodes) >= Replication \/ attempt + 1 = maxRetryAttempts
  /\ pc' = "done"
  /\ UNCHANGED <<ring, alive, attempt, allNodes, i, j, nodes, replacements,
                 steady>>

Next ==
  \/ Start \/ TakeReplica \/ SeekReplacement
  \/ TakeReplacement \/ SkipCandidate \/ KeepUnavailable
  \/ TryAgain \/ Return
  \/ pc # "done" /\ \E n \in ring : StatusChanges(n)

Spec == Init /\ [][Next]_vars

-----------------------------------------------------------------------------
Listed == Range(nodes)

\* When no status changes during the walk, the list has as many available
\* nodes as there are or as it has places.  About the search for replacements
\* from behind the replicas on: it takes nodes that are replicas themselves
\* and come up again later, and still no available node is left out for it.
ListsAvailable ==
  pc = "done" /\ steady =>
    LET n == Cardinality(alive) IN
    Cardinality(Listed \cap alive) >= IF n < Replication THEN n ELSE Replication

\* A node that stands twice in the list was taken as a replacement first.
\* About the test that is made for candidates and not for replicas: when a
\* node stands twice, one write to it counts as two towards the quorum.
RepeatIsReplacement ==
  \A a, b \in DOMAIN nodes : a < b /\ nodes[a] = nodes[b] =>
    \E n \in ring : <<n, nodes[a]>> \in replacements

\* No replacement stands for two nodes, and it is in the list, whatever gossip
\* does during the walk.  About processSloppyReplacements, which keeps a hint
\* for each original whose replacement has acknowledged the write.
ReplacementsStandForOne ==
  \A x, y \in replacements :
    x[2] \in Listed /\ (x[2] = y[2] => x = y)

\* When no status changes during the walk, a node that was replaced is not in
\* the list: no hint is kept for a node that is written directly as well.
ReplacedNodesAreOut ==
  steady => \A x \in replacements : x[1] \notin Listed

\* When a request comes in, processes that list the same members in different
\* orders, or one of them twice, find the same primary for its key; the walk
\* takes it for given.  About AddNode, which each process calls in an order of
\* its own, and GetNode's binary search.
OnePrimary == pc = "idle" => Disagreed = {}

\* Whenever a request comes in, a node that joins takes keys over and moves none
\* between the others, and takes none along when it leaves.  About AddNode and
\* RemoveNode, which looks the owners up in the map it is deleting them from; a
\* node that was added twice would leave virtual nodes without an owner behind.
JoiningMovesLittle == pc = "idle" => Upset = {}
=============================================================================
