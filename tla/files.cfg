SPECIFICATION StudySpec
CONSTANTS
  Reqs = {1, 2}
  Drops = {1}
  Owners = {1}
  MaxSessions = 2
  MaxDesc = 3
  MaxHandles = 2
INVARIANTS DescriptorsHeld  SessionsEnd
PROPERTIES OpenDropsStay
CHECK_DEADLOCK FALSE
