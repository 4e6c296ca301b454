SPECIFICATION FairSpec
CONSTANTS
  None = None
  Slots = 1
  MaxCalls = 3
  MaxTurns = 2
  MaxModel = 3
  MaxFaults = 2
INVARIANTS
  ExactlyOnce
PROPERTIES
  PendingSettles
CHECK_DEADLOCK FALSE
