SPECIFICATION FairSpec
CONSTANTS
  Requests = {r1, r2}
  Conns = {c1}
  Capacity = 1
  MaxErased = 0
  MaxRestarts = 0
PROPERTIES
  CaptureCompletes
  HealthySees
  ConnectionReleased
CHECK_DEADLOCK FALSE
