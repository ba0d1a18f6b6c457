SPECIFICATION ConfigFairSpec
CONSTANTS
  k1 = k1
  k2 = k2
  Key <- TwoSettings
  Refused <- RefusedSome
  SendMayFail = FALSE
  MaxOutstanding = 2
INVARIANTS SamplingMeansApplied
CHECK_DEADLOCK FALSE
