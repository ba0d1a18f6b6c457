SPECIFICATION ConfigFairSpec
CONSTANTS
  k1 = k1
  k2 = k2
  Key <- OneSetting
  Refused = {}
  SendMayFail = FALSE
  MaxOutstanding = 1
PROPERTIES ImuEventuallyEnabled
CHECK_DEADLOCK FALSE
