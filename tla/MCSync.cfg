CONSTANTS
  a = a  b = b  k1 = k1  p1 = p1  p2 = p2  r1 = r1  r2 = r2
  Node = {a, b}
  Put = {p1, p2}
  None = None
  KeyOrder <- Order
  KeyOf <- Keys
  BucketOf <- Buckets
  lastBucket = 1
  Coordinators <- Sent
  MayBeHinted <- Hinted
  Round = {r1, r2}
  HomeOf <- Homes
  MayBeLate = {r1}
  TreeKeys <- FourKeys
  Payloads = {1, 2}
  NoPayload = 0
SPECIFICATION FairSpec
INVARIANTS TypeOK MergedClockIsJoin SyncKeepsSiblings TreesTellTheDifference
PROPERTIES OnlyTheUnreadIsLost ReplicasConverge
CHECK_DEADLOCK FALSE
