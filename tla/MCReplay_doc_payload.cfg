SPECIFICATION Spec
CONSTANTS
  Requests = {r1}
  Calls = {k1}
  Views = {v1}
  Inputs <- Documented
  Codes = {200}
INVARIANTS
  PayloadTargetHonoured
CHECK_DEADLOCK FALSE
