SPECIFICATION Spec
CONSTANTS
  None = None
  Grid = 3
  MaxCandidates = 4
  BlockSize = 2
  MaxRange = 4
  CacheBlocks = 2
INVARIANTS
  VerdictsAreFair
  RastersAreHonest
  DerivationsAreSound
  SelectionIsStable
  MigrationKeepsRows
  RecordsReplay
  FirstApiRepeats
  ZonesCountPixels
  RangesAreExact
  WindowsVerify
CHECK_DEADLOCK FALSE
