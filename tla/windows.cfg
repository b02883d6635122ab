SPECIFICATION StudySpec
CONSTANTS
  Ops <- SocketOps
  Size <- SocketSize
  Kind <- SocketKind
  MaxQueued = 3
  MaxCalls = 2
INVARIANTS SocketSafe QueueSafe NoticesAgree HoldsCounted
PROPERTIES SizesAgree UploadsWhole
CHECK_DEADLOCK FALSE
