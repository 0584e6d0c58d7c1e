SPECIFICATION Spec
CONSTANTS
  Values = {1, 2}
  Nodes <- MCNodes
  MaxLines = 5
INVARIANTS RemovalsFind CollectionExact
PROPERTY ImplementsList
CHECK_DEADLOCK FALSE
