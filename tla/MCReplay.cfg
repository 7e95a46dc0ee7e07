SPECIFICATION Spec
CONSTANTS
  Requests = {r1, r2}
  Calls = {k1, k2}
  Views = {v1}
  Inputs <- Plain
  Codes = {200, 500}
SYMMETRY Symmetry
INVARIANTS
  TypeOK
  AttemptTruth
  DeletedNotReplayed
  HistoryComplete
  AttemptKept
  EnforcedNoOrphans
CHECK_DEADLOCK FALSE
