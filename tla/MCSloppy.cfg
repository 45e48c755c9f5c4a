CONSTANTS
  a = a  b = b  c = c  d = d  e = e
  Rings <- Clusters
  Self = a
  Primary = b
  Replication = 3
  maxRetryAttempts = 2
  NoNode = NoNode
  Members = {a, b, c}
  Placements <- Apart
  MemberOrders <- Orders3
  EarlierOrders <- Before
  KeyHashes <- Hashes
SPECIFICATION Spec
SYMMETRY Alike
INVARIANTS TypeOK ListsAvailable RepeatIsReplacement ReplacementsStandForOne ReplacedNodesAreOut OnePrimary JoiningMovesLittle
CHECK_DEADLOCK FALSE
