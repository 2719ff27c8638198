SPECIFICATION Spec
CONSTANTS
  Controls = {routing, budget}
  Routing = routing
  Settings = {unset, a, bad}
  Unset = unset
  Rejected = {bad}
  Requests = {r1, r2}
  Pipelining = FALSE
  MaxVersion = 3
  routing = routing
  budget = budget
  unset = unset
  a = a
  bad = bad
  r1 = r1
  r2 = r2
SYMMETRY RequestSymmetry
INVARIANTS
  TypeOK
  HistoryIsTheVersions
  DiffsDescribeTheChange
  AppliesKeepOtherControls
  StoredDocumentsAreValid
  ConflictsAreReal
  RequestsHoldCommittedDocuments
PROPERTIES
  NothingUnseenIsReplaced
  HistoryOnlyGrows
  ImplementsPolicyLog
