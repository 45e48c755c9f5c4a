CONSTANTS
  h1 = h1  h2 = h2  h3 = h3  k1 = k1  k2 = k2
  Key = {k1, k2}
  Hint = {h1, h2, h3}
  KeyOf <- Keys
  Reconnect = {r1}
  hintStorageLimit = 3
  MaxAttempts = 2
SPECIFICATION Spec
INVARIANTS RemovedHintWasDelivered
CHECK_DEADLOCK FALSE
