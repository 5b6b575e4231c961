SPECIFICATION Spec
CONSTANTS
  Client = {c1}
  ClientId = {u1}
  IoThreads = 1
  MaxRequest = 2
  MaxLog = 3
INVARIANT ExecutedOnce
CHECK_DEADLOCK FALSE
