SPECIFICATION BrokerSpec
CONSTANTS
  Writers = {w1, w2}
  Scopes <- MCScopes
  Inside <- MCInside
  Digests = {"object"}
  Capacities = {2, 3}
  Limit = 5
  MaxStray = 1
  None = None
  ObjectSize <- MCObjectSize
  Overhead = 0
  MaxCrashes = 2
SYMMETRY MCSymmetry
INVARIANTS
  WritersDisjoint
  HeadroomKept
  WithinLimit
  PublishedIsWhole
  CrashesAreCovered
