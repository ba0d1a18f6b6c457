SPECIFICATION Spec
CONSTANTS
  Handles = {257, 513}
  SlotCount = 2
  Files <- MCFiles
  Nodes <- MCNodes
  MaxNodes = 1
  MaxHeard = 2
  MaxChanges = 1
  UintModulus = 65536
INVARIANTS IdTellsLidars
CHECK_DEADLOCK FALSE
