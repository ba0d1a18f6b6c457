SPECIFICATION FairSpec
CONSTANTS
  LidarCount = 1
  QueueSize = 2
  CounterMod = 4
  MaxFrames <- Three
  Format <- FormatPcl
  ProgramOrder = TRUE
PROPERTIES ExitEndsOrParks
CHECK_DEADLOCK FALSE
