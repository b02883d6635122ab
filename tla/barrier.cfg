SPECIFICATION BarrierSpec
CONSTANTS
  SurfaceCount = 1
  RootOf <- OneWindow
  Queries = {q1}
  Kinds = {"attach"}
  Throttled = {}
  Mortal = {}
  Recaptured = {}
  MaxId = 2
  MaxConnections = 1
  MaxTokens = 3
  Pauses = 1
INVARIANTS DrainsAnswered SealsQuiet OpensUnfenced
CHECK_DEADLOCK FALSE
