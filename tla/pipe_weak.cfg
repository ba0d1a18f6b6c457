SPECIFICATION Spec
CONSTANTS
  LidarCount = 1
  QueueSize = 2
  CounterMod = 4
  MaxFrames <- Three
  Format <- FormatPointCloud2
  ProgramOrder = FALSE
INVARIANTS FramesIntact
CHECK_DEADLOCK FALSE
