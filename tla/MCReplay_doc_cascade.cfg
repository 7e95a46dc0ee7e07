SPECIFICATION Spec
CONSTANTS
  Requests = {r1}
  Calls = {k1}
  Views = {v1}
  Inputs <- Plain
  Codes = {200}
INVARIANTS
  NoOrphans
CHECK_DEADLOCK FALSE
