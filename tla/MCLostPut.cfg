CONSTANTS
  a = a  b = b  c = c
  Node = {a, b, c}
  Put = {p1, p2}
  None = None
  Get = {}
  Slot = {a, b, c}
  NodeLists <- OneList
  ReadQuorum = 2
  WriteQuorum = 2
  MaxAttempts = 1
  MayRestart = {}
SPECIFICATION Spec
SYMMETRY Interchangeable
INVARIANTS AckedWriteKept
CHECK_DEADLOCK FALSE
