SPECIFICATION FairSpec
CONSTANTS
  Clients <- MCClients
  MaxConnections = 2
  BufSize = 2
  MaxFd = 5
  MaxMessages <- MCMessages
  NulClients <- MCNuls
INVARIANTS OnlySelectBlocks ClientsKept ExitsWhenSpent
PROPERTIES MessagesAnswered WaitingAccepted
