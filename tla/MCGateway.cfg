SPECIFICATION Spec
CONSTANTS
  r1 = r1
  r2 = r2
  r3 = r3
  b1 = b1
  Off = Off
  None = None
  Requests = {r1, r2, r3}
  Models = {"gpt", "gem", "loc"}
  Bodies = {b1}
  Inputs <- MCInputs
  Catalog <- MCCatalog
  Price <- MCPrice
  Policies <- MCPolicies
  OllamaBound = TRUE
  StickySide = 30
  MaxInFlight = 2
  MaxMinute = 1
  MinutesPerDay = 1
  MaxFaults = 1
SYMMETRY Interchangeable
INVARIANTS
  TypeOK
  OneRecordPerRequest
  SpendIsTheCostOfFinishedCalls
  OverspendIsBounded
  AdmittedWithinLimit
  HitsReplayPaidAnswers
CHECK_DEADLOCK FALSE
