SPECIFICATION FairSpec
CONSTANTS
  Requests = {r1}
  Calls = {k1}
  Views = {v1}
  Inputs <- Various
  Codes = {200}
PROPERTIES
  CancelReleases
  AnsweredCompletes
CHECK_DEADLOCK FALSE
