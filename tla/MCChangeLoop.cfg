SPECIFICATION Spec
CONSTANTS
  f1 = f1
  r1 = r1
  r2 = r2
  Fingerprints = {f1}
  Requests = {r1, r2}
  InterimWindow = 0
  FinalWindow = 0
  MaxClock = 0
  MaxVersion = 3
  MaxOpportunities = 2
SYMMETRY RequestSymmetry
INVARIANTS
  TypeOK
  OneLiveRowPerFinding
  MeasuredAtMostOnce
  MeasurementsNameTheirApply
  StatusesFollowThePolicy
PROPERTIES
  ResolutionsStand
CHECK_DEADLOCK FALSE
