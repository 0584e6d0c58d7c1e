SPECIFICATION Spec
CONSTANTS
  NumDisks = 2
  BlocksPerDisk = 2
  Bit = {b0}
  MaxCmds = 3
  MaxCrashes = 0
INVARIANT ReadsSeeVolume
