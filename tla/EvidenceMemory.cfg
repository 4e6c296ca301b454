SPECIFICATION Spec
CONSTANTS
  r1 = r1  r2 = r2  r3 = r3
  Operators = {o1, o2}
  Records <- MCRecords
  AvailableAt <- MCAvailableAt
  ExpiresAt <- MCExpiresAt
  Commands <- MCCommands
  PolicyExpires = 3
  MaxActive = 2
  MaxEvents = 4
  MaxTime = 2
  MaxPins = 1
  None = None
SYMMETRY MCSymmetry
INVARIANTS
  LogReadable
  ActiveWithinLimit
  ReplacementWasActive
  SearchesAgree
  RetriesConfirmed
