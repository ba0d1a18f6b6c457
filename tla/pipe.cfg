SPECIFICATION FairSpec
CONSTANTS
  LidarCount = 2
  QueueSize = 2
  CounterMod = 4
  MaxFrames <- FiveAndTwo
  Format <- FormatPointCloud2
  ProgramOrder = TRUE
INVARIANTS SlotExclusion FramesIntact NoLostWakeup
PROPERTIES RefinesFifo FramesDelivered SignalEndsExit
CHECK_DEADLOCK FALSE
