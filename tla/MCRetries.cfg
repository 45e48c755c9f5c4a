CONSTANTS
  a = a  b = b  c = c
  Node = {a, b, c}
  Put = {p1, p2}
  None = None
  Get = {}
  Slot = {a, b}
  NodeLists <- OneList
  ReadQuorum = 1
  WriteQuorum = 2
  MaxAttempts = 2
  MayRestart = {a, b}
SPECIFICATION Spec
SYMMETRY Interchangeable
PROPERTIES LateWritesAddNothing
CHECK_DEADLOCK FALSE
