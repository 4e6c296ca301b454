SPECIFICATION Spec
CONSTANTS
  None = None
  Slots = 1
  MaxCalls = 2
  MaxTurns = 2
  MaxModel = 2
  MaxFaults = 1
INVARIANTS
  PendingBeforeSend
CHECK_DEADLOCK FALSE
