CONSTANTS
  a = a  b = b  c = c
  Node = {a, b, c}
  Put = {p1, p2}
  None = None
  Get = {g1}
  Slot = {a, b}
  NodeLists <- OneList
  ReadQuorum = 1
  WriteQuorum = 2
  MaxAttempts = 1
  MayRestart = {a, b}
SPECIFICATION Spec
SYMMETRY Interchangeable
INVARIANTS TypeOK AckedWriteHeld QuorumRead ClockIsJoin NoSiblingLost ResultCoversResponses
PROPERTIES ReplicasOnlyAdvance KeepsPromise
CHECK_DEADLOCK FALSE
