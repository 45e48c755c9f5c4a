CONSTANTS
  a = a  b = b  c = c
  Node = {a, b, c}
  Put = {p1, p2}
  None = None
  Get = {g1}
  Slot = {1, 2}
  NodeLists <- TwoLists
  ReadQuorum = 2
  WriteQuorum = 1
  MaxAttempts = 1
  MayRestart = {}
SPECIFICATION Spec
SYMMETRY Writes
INVARIANTS QuorumRead
CHECK_DEADLOCK FALSE
