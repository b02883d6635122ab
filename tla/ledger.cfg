SPECIFICATION Spec
CONSTANTS
  SurfaceCount = 1
  RootOf <- OneWindow
  Queries = {q1}
  Kinds = {"attach", "detach", "state"}
  Throttled = {}
  Mortal = {1}
  Recaptured = {}
  MaxId = 5
  MaxConnections = 2
  MaxTokens = 0
  Pauses = 0
INVARIANTS TypeOK PresentedWasDisplayed
PROPERTIES DiscardedWasNotDisplayed ForgottenOnlyWhenSettled
CHECK_DEADLOCK FALSE
