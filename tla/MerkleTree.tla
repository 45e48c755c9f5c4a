----------------------------- MODULE MerkleTree -----------------------------
(* src/backend/merkle_tree.go: the trees two replicas compare to find the    *)
(* keys they disagree about.  SHA-256 is taken for injective: a hash is the  *)
(* tuple of what went into it, marked as a leaf's or an inner node's.        *)
EXTENDS Lists, SequencesExt

CONSTANTS
  TreeKeys,   \* the keys that trees are compared for, sorted
  Payloads,   \* what may be stored under each of them
  NoPayload   \* the key is missing

ASSUME TreeKeysAreInOrder ==
  /\ TreeKeys \in Seq(Range(TreeKeys))
  /\ \A i, j \in DOMAIN TreeKeys : TreeKeys[i] = TreeKeys[j] => i = j

hashLeaf(key, value) == <<"leaf", key, value>>

hashPair(x, y) == <<"pair", x, y>>

\* Mutant: the last hash of an odd level is left out of the next.
NextLevelCut(current) ==
  [i \in 1..(Len(current) \div 2) |-> hashPair(current[2 * i - 1], current[2 * i])]

\* One turn of buildTree's loop; the last hash of an odd level stands in for
\* its missing neighbour.
NextLevel(current) ==
  [i \in 1..((Len(current) + 1) \div 2) |->
     hashPair(current[2 * i - 1],
              current[IF 2 * i <= Len(current) THEN 2 * i ELSE 2 * i - 1])]

\* The levels from the leaves to the root, the first with no more than one hash.
buildTree(leaves) ==
  LET level[l \in 0..Len(leaves)] == IF l = 0 THEN leaves ELSE NextLevel(level[l - 1])
      top == CHOOSE l \in 0..Len(leaves) :
               Len(level[l]) <= 1 /\ \A m \in 0..(l - 1) : Len(level[m]) > 1
  IN  [n \in 1..(top + 1) |-> level[n - 1]]

\* data maps keys to payloads; order has all keys, sorted.
NewMerkleTree(data, order) ==
  LET keys == EntriesAt(order, {i \in DOMAIN order : order[i] \in DOMAIN data})
      leaves == [i \in DOMAIN keys |-> hashLeaf(keys[i], data[keys[i]])]
  IN  [leaves |-> leaves,
       levels |-> buildTree(leaves),
       keyMap |-> [h \in Range(leaves) |->
                     CHOOSE k \in DOMAIN data : h = hashLeaf(k, data[k])]]

\* The empty string, here << >>, for a tree without leaves.
Root(mt) == IF Last(mt.levels) = << >> THEN << >> ELSE Last(mt.levels)[1]

findDifferingKeys(mt, other) ==
  {mt.keyMap[h] : h \in Range(mt.leaves) \ Range(other.leaves)}
    \cup {other.keyMap[h] : h \in Range(other.leaves) \ DOMAIN mt.keyMap}

CompareTrees(mt, other) ==
  IF Root(mt) = Root(other) THEN {} ELSE findDifferingKeys(mt, other)

-----------------------------------------------------------------------------
\* The trees of x and y, which map all keys, value none meaning no leaf, tell
\* exactly the keys the two disagree about.
FindsTheDifference(order, none, x, y) ==
  LET Tree(d) == NewMerkleTree([k \in {i \in Range(order) : d[i] # none} |-> d[k]],
                               order)
  IN  CompareTrees(Tree(x), Tree(y)) = {k \in Range(order) : x[k] # y[k]}

Datasets == [Range(TreeKeys) -> Payloads \cup {NoPayload}]

\* What one side may hold when CompareTrees finds another difference than there is.
ToldWrongly ==
  {x \in Datasets : \E y \in Datasets : ~FindsTheDifference(TreeKeys, NoPayload, x, y)}
=============================================================================
