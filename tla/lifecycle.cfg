SPECIFICATION FairSpec
CONSTANTS
  MaxSessions = 2
  MaxFailures = 1
INVARIANTS OwnSession BroadcastUsable RemovedIsQuiet Listens
PROPERTIES UninitEnds LoopsFallSilent
CHECK_DEADLOCK FALSE
