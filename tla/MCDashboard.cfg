SPECIFICATION Spec
CONSTANTS
  Requests = {r1, r2}
  Slots = {s1, s2}
  None = None
  Limit = 1
  Faults = TRUE
SYMMETRY Symmetry
INVARIANTS
  TypeOK
  MissingExplained
  DuplicatesExplained
  ButtonOwned
CHECK_DEADLOCK FALSE
