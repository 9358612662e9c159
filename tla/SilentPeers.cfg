SPECIFICATION FairSpec
CONSTANTS
  MaxClients = 2
  Peers = {p1, p2}
  MaxRx = 0
  None = None
  ActivityPeriods = 1
  AppCalls = {}
  MaxAppCalls = 0
  CreateMayFail = FALSE
  OptionsMayFail = TRUE
PROPERTIES
  SilentSessionsEnd
  QueuedSynLeaves
  PortReopens
