SPECIFICATION FairSpec
CONSTANTS
  LidarCount = 1
  QueueSize = 2
  CounterMod = 4
  MaxFrames <- Three
  Format <- FormatPointCloud2
  ProgramOrder = TRUE
PROPERTIES ExitEnds
CHECK_DEADLOCK FALSE
