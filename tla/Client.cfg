SPECIFICATION FairSpec
CONSTANTS
  Users = {u1, u2}
  MaxLate = 3
  MaxRx = 5
INVARIANTS TypeOK OpenIsBound SendersServed NoDataWaits
PROPERTIES ReceiversReleased DisconnectFrees CallsReturn WaitersLetGo
CHECK_DEADLOCK FALSE
