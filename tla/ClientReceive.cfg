SPECIFICATION Spec
CONSTANTS
  Users = {u1}
  MaxLate = 1
  MaxRx = 1
INVARIANT UnboundHasNoReceivers
CHECK_DEADLOCK FALSE
