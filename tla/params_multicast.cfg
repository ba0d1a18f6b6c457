SPECIFICATION ParamsSpec
CONSTANTS
  Configs <- MulticastConfigs
  Texts <- MCTexts
  HostPorts = {56000}
  LidarPorts <- MCLidarPorts
  FactoryPort = 56201
  UintModulus = 16
  MaxCalls = 1
  MaxUpdates = 2
  MaxPushes = 1
INVARIANTS PushesReachHost
CHECK_DEADLOCK FALSE
