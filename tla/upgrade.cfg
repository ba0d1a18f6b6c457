SPECIFICATION FairSpec
CONSTANTS
  Loop = {l1, l2}
  Blocks = 3
  kGeneralTryCountLimit = 3
  kGetProcessTryCountLimit = 4
  MaxSendFailures = 1
  PromptStart = TRUE
INVARIANTS NothingSkipped NoneToCome
PROPERTIES UpgradeEnds
CHECK_DEADLOCK FALSE
