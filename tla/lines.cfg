SPECIFICATION FairLineSpec
CONSTANTS
  Clients <- MCClients
  Message <- MCMessage
  Times = 2
  MinChars = 1
  MaxChars = 3
  BufSize = 5
  Backlog = 1
INVARIANTS LinesPrinted ClosedAfterLastLine
PROPERTY EveryClientServed
