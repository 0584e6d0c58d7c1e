SPECIFICATION FairSpec
CONSTANTS
  NumDisks = 2
  BlocksPerDisk = 2
  Bit = {b0}
  PipeCap = 1
  MaxCmds = 2
  MaxCrashes = 1
  UnderGui = TRUE
INVARIANTS
  ArrayConsistent
  CheckpointsMatchVolume
  ExitWaitsForDisks
  ClosingTearsOneDisk
PROPERTIES
  ImplementsShell FailureHealsDisk CommandsReturn ExitReturns DisksStop
