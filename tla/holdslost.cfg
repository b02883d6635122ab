SPECIFICATION StudySpec
CONSTANTS
  Surfaces = {1, 2}
  RootOf <- WithSub
  Buffers = {"a", "b"}
  None = "none"
  Explicit = {"b"}
  Fifo = {1}
  Repeats = {}
  Retained = {}
  Mortal = {1, 2}
  Fragile = {"a"}
  MaxId = 5
  MaxConnections = 2
INVARIANT HoldsOutliveSessions
CHECK_DEADLOCK FALSE
