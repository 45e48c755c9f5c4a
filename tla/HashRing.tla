------------------------------ MODULE HashRing ------------------------------
(* src/backend/consistent_hash.go.  A hash is its place among the hashes; no *)
(* two virtual nodes have the same (they are the first 64 bits of SHA-256).  *)
(* hashes maps each node to the hashes of its virtual nodes.                 *)
EXTENDS Lists, SequencesExt

CONSTANTS
  NoNode,         \* the empty string
  Members,        \* the nodes that may be in a ring
  Placements,     \* where their hashes may fall
  MemberOrders,   \* in which processes may learn of all of them
  EarlierOrders,  \* and of those who are there before another joins
  KeyHashes       \* the hashes of the keys that are asked for

\* No two nodes have a hash in common.
HashesAreApart(members, hashes) ==
  /\ \A m \in members : IsFiniteSet(hashes[m]) /\ hashes[m] \subseteq Nat
  /\ \A m, n \in members : m # n => hashes[m] \cap hashes[n] = {}

ASSUME PlacementsAreSound ==
  \A p \in Placements : HashesAreApart(Members, p) /\ \A m \in Members : p[m] # {}
ASSUME OrdersAreOfMembers ==
  /\ Members # {}
  /\ \A o \in MemberOrders : o \in Seq(Members) /\ Range(o) = Members
  /\ \A o \in EarlierOrders : o \in Seq(Members)
ASSUME HashesAreNumbers == KeyHashes \subseteq Nat

NewConsistentHashRing == [virtualNodes |-> << >>, nodeMap |-> << >>, nodes |-> {}]

\* Mutant: the new virtual nodes are left at the end.
AddNodeUnsorted(r, n, hashes) ==
  [virtualNodes |-> r.virtualNodes \o SetToSeq(hashes[n]),
   nodeMap |-> [h \in DOMAIN r.nodeMap \cup hashes[n] |->
                  IF h \in hashes[n] THEN n ELSE r.nodeMap[h]],
   nodes |-> r.nodes \cup {n}]

\* A node that is added again has its virtual nodes twice.
AddNode(r, n, hashes) ==
  [virtualNodes |-> Sorted(r.virtualNodes \o SetToSeq(hashes[n])),
   nodeMap |-> [h \in DOMAIN r.nodeMap \cup hashes[n] |->
                  IF h \in hashes[n] THEN n ELSE r.nodeMap[h]],
   nodes |-> r.nodes \cup {n}]

\* Mutant: the virtual nodes of the removed node stay.
RemoveNodeFromMap(r, n) ==
  [r EXCEPT
     !.nodeMap = [h \in {g \in DOMAIN @ : @[g] # n} |-> @[h]],
     !.nodes = @ \ {n}]

OwnerOf(r, h) == IF h \in DOMAIN r.nodeMap THEN r.nodeMap[h] ELSE NoNode

\* The owners are looked up in the map they are being deleted from: of a hash
\* that stands twice only the first place goes.
RemoveNode(r, n) ==
  [virtualNodes |->
     LET vns == r.virtualNodes
     IN  EntriesAt(vns, {p \in DOMAIN vns : OwnerOf(r, vns[p]) # n
                                            \/ \E q \in 1..(p - 1) : vns[q] = vns[p]}),
   nodeMap |-> [h \in {g \in DOMAIN r.nodeMap : r.nodeMap[g] # n} |->
                  r.nodeMap[h]],
   nodes |-> r.nodes \ {n}]

\* The owner of the first virtual node from the key's hash on, round the ring.
GetNode(r, hash) ==
  LET vns == r.virtualNodes
      found == {p \in DOMAIN vns : vns[p] >= hash}
  IN  IF vns = << >> THEN NoNode
      ELSE OwnerOf(r, vns[IF found = {} THEN 1 ELSE Min(found)])

\* What main builds of the node itself and its peers, in the file's order.
RingOf(order, hashes) ==
  LET r[k \in 0..Len(order)] ==
        IF k = 0 THEN NewConsistentHashRing
        ELSE AddNode(r[k - 1], order[k], hashes)
  IN  r[Len(order)]

-----------------------------------------------------------------------------
\* With these hashes a ring built in any of the orders finds, for every key,
\* the member with the virtual node next to the key's hash.
SamePrimary(members, orders, hashes, keys) ==
  LET all == UNION {hashes[n] : n \in members}
      after(k) == {h \in all : h >= k}
      next(k) == IF after(k) = {} THEN Min(all) ELSE Min(after(k))
  IN  \A o \in orders : \A k \in keys :
        next(k) \in hashes[GetNode(RingOf(o, hashes), k)]

\* The placements with which two of them look for a key at different nodes.
Disagreed ==
  {p \in Placements : ~SamePrimary(Members, MemberOrders, p, KeyHashes)}

\* Where n joins the others: no key moves between them, and when it leaves
\* again every key is back where it was.
OnlyTheJoinerGains(n, others, hashes, keys) ==
  LET without == RingOf(others, hashes)
      joined == AddNode(without, n, hashes)
  IN  \A k \in keys :
        /\ GetNode(joined, k) \in {n, GetNode(without, k)}
        /\ GetNode(RemoveNode(joined, n), k) = GetNode(without, k)

\* The placements with which a join or a leave moves other keys than it should.
Upset ==
  {p \in Placements : \E o \in EarlierOrders : \E n \in Members \ Range(o) :
     ~OnlyTheJoinerGains(n, o, p, KeyHashes)}
=============================================================================
