SPECIFICATION FairSpec
CONSTANTS
  c1 = c1
  c2 = c2
  c3 = c3
  Command <- ToMid360
  Family <- Mid360Only
  NoCommand = NoCommand
  SeqMax = 2
  Loop = {l1, l2}
  SendMayFail = FALSE
PROPERTIES TimeoutIsTrue
CHECK_DEADLOCK FALSE
