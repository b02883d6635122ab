SPECIFICATION Spec
CONSTANTS
  SurfaceCount = 2
  RootOf <- WindowWithSubsurface
  Queries = {q1}
  Kinds = {"attach", "detach", "state", "frame"}
  Throttled = {1}
  Mortal = {2}
  Recaptured = {}
  MaxId = 4
  MaxConnections = 1
  MaxTokens = 0
  Pauses = 0
INVARIANTS NoRedisplayInFlight Evidence
PROPERTY ClientSpec
CHECK_DEADLOCK FALSE
