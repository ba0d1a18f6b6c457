\* the stores of the two flags of a lidar in its loader, with a detection in between
SPECIFICATION Spec
CONSTANTS
  Loop = {"detection", "cmd", "data"}
  h1 = h1
  h2 = h2
  Lidar <- OneLidar
  Hap <- NoHap
  MaxRetry = 1
INVARIANT LoaderLeftAlone
CHECK_DEADLOCK FALSE
