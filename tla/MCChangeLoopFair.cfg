SPECIFICATION FairSpec
CONSTANTS
  f1 = f1
  r1 = r1
  r2 = r2
  Fingerprints = {f1}
  Requests = {r1}
  InterimWindow = 1
  FinalWindow = 2
  MaxClock = 2
  MaxVersion = 3
  MaxOpportunities = 1
INVARIANTS
  VerdictsAreAttributable
PROPERTIES
  MeasurementsConclude
CHECK_DEADLOCK FALSE
