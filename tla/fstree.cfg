SPECIFICATION FairSpec
CONSTANTS
  Nodes = {0, 1, 2, 3}
  Links = {1, 2, 3, 4}
  Names = {"a", "b"}
  RootName = "root"
  Paths <- MCPaths
  MaxOps = 6
INVARIANTS NoDangling MarksExact LinksNotShared
PROPERTY CollectorReturns
