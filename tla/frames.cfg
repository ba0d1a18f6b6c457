SPECIFICATION FairSpec
CONSTANTS
  Lidar = {1, 2}
  TimeTypes <- OneOfEach
  TicksPerMs = 1
  Interval = 2
  HostEpoch = 10
  StampMod = 32
  MaxTime = 4
INVARIANTS NoSyncRate
PROPERTIES RefinesStream OneFramePerInterval LastPacketTaken UninitEnds
CHECK_DEADLOCK FALSE
