SPECIFICATION FairSpec
CONSTANTS
  NumDisks = 2
  Fds <- MCFds
  MaxStarts = 2
INVARIANTS ParentTableExact ChildTableExact DeathNoticed
PROPERTY EofReachesDisks
