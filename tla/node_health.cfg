SPECIFICATION Spec
CONSTANTS
  None = None
  Modules = {"m1"}
  Keys = {1, 2}
  MaxEvents = 2
  MaxDiagnostics = 2
  MaxRecords = 4
  MaxResets = 1
INVARIANTS
  TypeOK
  VerdictFollowsEvents
  ErrorsOnlyEvicted
  SummaryCovers
CHECK_DEADLOCK FALSE
