SPECIFICATION Spec
CONSTANTS
  MaxSessions = 2
  MaxFailures = 0
INVARIANTS ScanRuns
CHECK_DEADLOCK FALSE
