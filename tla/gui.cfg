SPECIFICATION FairSpec
CONSTANTS
  NumDisks = 2
  ShellDisks <- MCDisks
  NumStripes = 2
  BlocksPerDisk = 3
  Arguments <- MCArguments
  InCap = 1
  OutCap = 3
  MaxCmds = 3
INVARIANTS HeadersFollowReports HighlightFollowsAccess
PROPERTIES RefreshShows WindowAnswers ExitEnds
CHECK_DEADLOCK FALSE
