SPECIFICATION FairSessionsSpec
CONSTANTS
  Connections <- MCConnections
  None = None
  MaxSessions = 2
  PoolSize = 4
  MaxClients = 2
  MaxLines = 1
INVARIANTS
  TypeOK
  Balanced
  SessionsFollow
PROPERTIES
  PacketsKept
  WaitKeepsClient
  LoopReturns
