SPECIFICATION ControlPlaneSpec
CONSTANTS
  a1 = a1
  a2 = a2
  b1 = b1
  b2 = b2
  k1 = k1
  k2 = k2
  Unheld = Unheld
  Silence = Silence
  NoRun = NoRun
  NoKey = NoKey
  NoSimulation = NoSimulation
  NoScore = NoScore
  Nodes = {a1, a2}
  Readers = {b1, b2}
  CacheTTL <- MCCacheTTL
  MaxFetch = 1
  MaxWrites = 2
  MaxClock = 3
  Callers = {a1, a2}
  Emails = {b1, b2}
  Names = {"app"}
  MaxOrgs = 2
  MaxUsers = 3
  MaxApps = 2
  Tools = {a1, a2}
  Contents = {"text", "link", "odd"}
  MaxMessages = 6
  MaxCalls = 2
  HoursPerDay = 4
  LastHour = 8
  MaxRows = 2
  Slacks <- MCSlacks
  RetentionDays = {1}
  UnitPrice <- MCPrice
  ReplayLimit = 3
  DayLength = 1
  Significand = 16
  Powers = {1, 2, 4, 8}
  Rows <- MCRows
  Scenarios <- MCScenarios
  WindowDays = {0, 2}
  DefaultDays = 1
  MaxRecorded = 4
  LastInstant = 3
  Downgrades <- MCDowngrades
  Traits <- MCTraits
  TTLs = {2, 7}
  Floors <- MCFloors
  MaxOpen = 2
  TokenFloor = 5
  Samples <- MCSamples
  Evaluation = 4
  SlotSamples = 3
  Workloads <- MCWorkloads
  FirstHour = 29
  LastRunHour = 30
  KeepDays = 0
  MaxOpps = 2
SYMMETRY Interchangeable
INVARIANTS
  AnswersAreRecent
  AccountsAreWhole
  ToolResultsReachTheirCall
  SettledHoursAreExact
  ReplayMatchesItsDefinition
  FindingsAreWithinSpend
  LiveFindingsAreDistinct
CHECK_DEADLOCK FALSE
