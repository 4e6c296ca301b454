SPECIFICATION Spec
CONSTANTS
  BlockSize = 2
  MaxRange = 4
  CacheBlocks = 2
  None = None
  Grid = 3
  MaxCandidates = 4
INVARIANTS
  SelectionScored
CHECK_DEADLOCK FALSE
