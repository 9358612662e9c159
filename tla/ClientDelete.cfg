SPECIFICATION Spec
CONSTANTS
  Users = {u1}
  MaxLate = 1
  MaxRx = 1
INVARIANT DeletedIsGone
CHECK_DEADLOCK FALSE
