CONSTANTS
  a = a  b = b  c = c
  Node = {a, b, c}
  Put = {p1}
  None = None
  Get = {g1}
  Slot = {a, b}
  NodeLists <- OneList
  ReadQuorum = 1
  WriteQuorum = 2
  MaxAttempts = 2
  MayRestart = {a, b}
SPECIFICATION FairSpec
PROPERTIES PutsEnd GetsEnd
CHECK_DEADLOCK FALSE
