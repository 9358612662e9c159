SPECIFICATION Spec
CONSTANTS
  MaxClients = 2
  Peers = {p1, p2}
  MaxRx = 1
  None = None
  ActivityPeriods = 2
  AppCalls = {}
  MaxAppCalls = 0
  CreateMayFail = FALSE
  OptionsMayFail = TRUE
SYMMETRY PeerSymmetry
INVARIANTS
  TypeOK
  ListenerSound
  OneSocketPerPeer
  SessionsMatchTimers
PROPERTIES
  SessionNotReused
  LedgerImplemented
