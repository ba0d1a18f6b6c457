SPECIFICATION FairSpec
CONSTANTS
  Handles = {257, 513}
  SlotCount = 2
  Files <- MCFiles
  Nodes <- MCNodes
  MaxNodes = 1
  MaxHeard = 2
  MaxChanges = 1
  UintModulus = 65536
INVARIANTS TopicCarriesItsLidar SentAsConfigured
PROPERTIES Promptly ExitEndsOrParks
CHECK_DEADLOCK FALSE
