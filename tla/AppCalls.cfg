SPECIFICATION Spec
CONSTANTS
  MaxClients = 2
  Peers = {p1, p2}
  MaxRx = 0
  None = None
  ActivityPeriods = 1
  AppCalls = {"stop", "delete", "disconnect"}
  MaxAppCalls = 1
  CreateMayFail = TRUE
  OptionsMayFail = FALSE
SYMMETRY PeerSymmetry
INVARIANTS
  StoppedQuiet
  DeletedQuiet
  DeletedUnused
  EstablishedIsServed
  QueueOnlyWhenBusy
PROPERTIES
  StopClosesPort
  NoLostWaiter
CHECK_DEADLOCK FALSE
