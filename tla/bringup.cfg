\* one lidar and all three loops; the SDK gives up after the second failure
SPECIFICATION FairSpec
CONSTANTS
  Loop = {"detection", "cmd", "data"}
  h1 = h1
  h2 = h2
  Lidar <- OneLidar
  Hap <- NoHap
  MaxRetry = 1
INVARIANTS QueryNeverLost ToldOnce ToldMeansConfigured
PROPERTY EveryoneTold
CHECK_DEADLOCK FALSE
