SPECIFICATION Spec
CONSTANTS
  r1 = r1
  r2 = r2
  r3 = r3
  r4 = r4
  r5 = r5
  Requests = {r1, r2}
  Malformed = {}
  Capacity = 1
  BatchSize = 2
SYMMETRY GoodRequests
PROPERTIES
  ShutdownFlushes
CHECK_DEADLOCK FALSE
