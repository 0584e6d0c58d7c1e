SPECIFICATION Spec
CONSTANTS
  NumDisks = 1
  BlocksPerDisk = 1
  Bit = {b0}
  PipeCap = 2
  MaxCmds = 2
  MaxCrashes = 0
  UnderGui = FALSE
INVARIANT AckedWriteStored
