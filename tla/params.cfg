SPECIFICATION ParamsSpec
CONSTANTS
  Configs <- MCConfigs
  Texts <- MCTexts
  HostPorts = {56000}
  LidarPorts <- MCLidarPorts
  FactoryPort = 56201
  UintModulus = 16
  MaxCalls = 1
  MaxUpdates = 2
  MaxPushes = 1
INVARIANTS ReportIsWhatWasSet FlowsReachHost
CHECK_DEADLOCK FALSE
