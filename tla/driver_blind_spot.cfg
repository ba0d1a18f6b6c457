SPECIFICATION Spec
CONSTANTS
  Handles = {1}
  SlotCount = 1
  Files <- BlindSpotFiles
  Nodes <- MCNodes
  MaxNodes = 2
  MaxHeard = 0
  MaxChanges = 1
  UintModulus = 65536
INVARIANTS BlindSpotAsConfigured
CHECK_DEADLOCK FALSE
