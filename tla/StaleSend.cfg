SPECIFICATION SessionsSpec
CONSTANTS
  Connections <- MCConnections
  None = None
  MaxSessions = 2
  PoolSize = 1
  MaxClients = 3
  MaxLines = 0
INVARIANT OutputIsOwn
