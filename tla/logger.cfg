SPECIFICATION FairSpec
CONSTANTS
  Files = {0, 1}
  LastTrans <- MCLastTrans
  MaxCache = 2
  MaxDeliveries = 4
  MaxTime = 2
INVARIANTS ContentsInOrder WritersKnown
PROPERTIES OpenFileKept DestoryEnds
CHECK_DEADLOCK FALSE
