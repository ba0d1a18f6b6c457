SPECIFICATION ConfigFairSpec
CONSTANTS
  k1 = k1
  k2 = k2
  Key <- TwoSettings
  Refused = {}
  SendMayFail = TRUE
  MaxOutstanding = 2
INVARIANTS NoNullResponse
CHECK_DEADLOCK FALSE
