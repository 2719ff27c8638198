SPECIFICATION FairSpec
CONSTANTS
  r1 = r1
  r2 = r2
  r3 = r3
  r4 = r4
  r5 = r5
  Requests = {r1, r2, r3, r4}
  Malformed = {r1}
  Capacity = 2
  BatchSize = 2
INVARIANTS
  TypeOK
  EveryRecordIsInOnePlace
  GracefulStopFlushesAll
PROPERTIES
  RequestsNeverStall
  RecordsReachTheDatabase
CHECK_DEADLOCK FALSE
