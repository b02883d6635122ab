SPECIFICATION Spec
CONSTANTS
  Guest = {1}
  Host = {}
  DataMax = 2
  MaxInbound = 1
  Socket = 1
  MaxControl = 2
  MayFail = TRUE
INVARIANTS SessionKept NoProtocolError
PROPERTIES DataArrives
CHECK_DEADLOCK FALSE
