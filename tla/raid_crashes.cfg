SPECIFICATION Spec
CONSTANTS
  NumDisks = 2
  BlocksPerDisk = 1
  Bit = {b0}
  PipeCap = 2
  MaxCmds = 4
  MaxCrashes = 1
  UnderGui = TRUE
INVARIANTS
  ReadsSeeVolume
  SingleLossSurvived
PROPERTY
  ImplementsVolume
