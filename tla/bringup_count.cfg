\* two lidars share the counter: the SDK gives up on one that never failed
SPECIFICATION Spec
CONSTANTS
  Loop = {"detection", "cmd"}
  h1 = h1
  h2 = h2
  Lidar <- TwoLidars
  Hap <- OneHap
  MaxRetry = 0
INVARIANT GaveUpAfterRetries
CHECK_DEADLOCK FALSE
