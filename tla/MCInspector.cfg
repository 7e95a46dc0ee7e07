SPECIFICATION Spec
CONSTANTS
  plain = plain
  odd = odd
  Webhooks <- TwoWebhooks
  Old <- OneOdd
  Odd <- OneOdd
  Settings <- SomeSettings
  Slots = {s1, s2}
  MaxRuns = 2
  Limit = 1
  None = None
SYMMETRY Symmetry
VIEW View
INVARIANTS
  TypeOK
  ScreenTrue
  GhostExplained
  DeletionReaches
CHECK_DEADLOCK FALSE
