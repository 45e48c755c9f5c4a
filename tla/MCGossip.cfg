CONSTANTS
  a = a  b = b  c = c
  Current = Current
  Clusters <- Instances
  SuspicionTimeout = 0
  FailureTimeout = 1
  MaxHeartbeat = 1
  MayCrash = {b, c}
SPECIFICATION FairSpec
INVARIANTS TypeOK 
PROPERTIES  DeadStayUnavailable OnlyMutualDownIsForever
CHECK_DEADLOCK FALSE
