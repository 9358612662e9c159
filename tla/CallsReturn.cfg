SPECIFICATION FairSpec
CONSTANTS
  MaxClients = 1
  Peers = {p1, p2}
  MaxRx = 0
  None = None
  ActivityPeriods = 1
  AppCalls = {"disconnect", "stop", "delete"}
  MaxAppCalls = 2
  CreateMayFail = FALSE
  OptionsMayFail = TRUE
INVARIANT EstablishedIsServed
PROPERTIES
  NoLostWaiter
  AppCallReturns
  ThreadReturns
