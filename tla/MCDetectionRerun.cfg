SPECIFICATION DetectionSpec
CONSTANTS
  k1 = k1
  k2 = k2
  NoKey = NoKey
  NoScore = NoScore
  UnitPrice <- MCPrice
  ReplayLimit = 3
  DayLength = 1
  Significand = 16
  Powers = {1, 2, 4, 8}
  Downgrades <- MCDowngrades
  Traits <- MCTraits
  TTLs = {2, 7}
  Floors <- MCFloors
  MaxOpen = 2
  TokenFloor = 5
  Samples <- MCSamples
  Evaluation = 4
  SlotSamples = 3
  Workloads <- MCBurst
  FirstHour = 29
  LastRunHour = 31
  KeepDays = 1
  MaxOpps = 3
INVARIANTS
  RerunMakesNoDuplicate
CHECK_DEADLOCK FALSE
