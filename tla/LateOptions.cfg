SPECIFICATION Spec
CONSTANTS
  Segments <- MCLateOptions
  MaxSegments = 3
  RxSize = 7
  Commands <- MCCommands
  Contexts = 1
INVARIANT OnlyDataTyped
CHECK_DEADLOCK FALSE
