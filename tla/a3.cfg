SPECIFICATION Spec
CONSTANTS
  NumDisks = 2
  BlocksPerDisk = 2
  Bit = {b0}
  MaxCmds = 5
  MaxCrashes = 1
INVARIANTS
  ReadsRight
  ParityTracksChanges
PROPERTY OneLossServed
