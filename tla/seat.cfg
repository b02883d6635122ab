SPECIFICATION StudySpec
CONSTANTS
  Surfaces = {1, 2, 3}
  Top <- WindowOf
  Client <- ClientOf
  Ring = 2
  MaxGrants = 1
  Timeout = 1
  MaxTime = 1
  MaxPresses = 1
  MaxTokens = 2
  Channel = 1
  MaxGone = 0
INVARIANTS FocusAgrees TokensOnce DragsEnd SelectionAgrees
PROPERTIES UserDecides
CHECK_DEADLOCK FALSE
