CONSTANTS
  a = a  b = b  c = c
  Node = {a, b, c}
  Put = {p1, p2, p3}
  None = None
  Get = {}
  Slot = {a, b}
  NodeLists <- OneList
  ReadQuorum = 1
  WriteQuorum = 2
  MaxAttempts = 1
  MayRestart = {a, b}
SPECIFICATION Spec
SYMMETRY Interchangeable
INVARIANTS AckedWriteHeld ClockIsJoin NoSiblingLost
CHECK_DEADLOCK FALSE
