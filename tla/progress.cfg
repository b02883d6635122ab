SPECIFICATION FairSpec
CONSTANTS
  SurfaceCount = 1
  RootOf <- OneWindow
  Queries = {q1}
  Kinds = {"attach"}
  Throttled = {}
  Mortal = {}
  Recaptured = {}
  MaxId = 4
  MaxConnections = 2
  MaxTokens = 0
  Pauses = 0
PROPERTIES ResultIsSettled DirtyIsSent
CHECK_DEADLOCK FALSE
