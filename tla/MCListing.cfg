SPECIFICATION Spec
CONSTANTS
  Requests = {r1, r2, r3}
  Lists = {l1}
  Limit = 2
  Width = 2
  Digits = {0, 1}
  Horizon = 1
SYMMETRY Symmetry
INVARIANTS
  TypeOK
  MisorderExplained
  AnsweredListed
  TimesExact
CHECK_DEADLOCK FALSE
