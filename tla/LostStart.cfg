SPECIFICATION Spec
CONSTANTS
  MaxClients = 1
  Peers = {p1}
  MaxRx = 0
  None = None
  ActivityPeriods = 1
  AppCalls = {"stop"}
  MaxAppCalls = 1
  CreateMayFail = FALSE
  OptionsMayFail = FALSE
INVARIANTS
  StartRunsThread
