SPECIFICATION FairSpec
CONSTANTS
  Segments <- MCSegments
  MaxSegments = 3
  RxSize = 7
  Commands <- MCCommands
  Contexts = 2
INVARIANTS
  TypeOK
  TypedIsSent
  EchoIsAgreed
  LeftBehindADrop
PROPERTY
  InputIsRead
CHECK_DEADLOCK FALSE
