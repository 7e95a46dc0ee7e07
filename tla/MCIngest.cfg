SPECIFICATION Spec
CONSTANTS
  Requests = {r1, r2}
  Conns = {c1}
  Capacity = 1
  MaxErased = 2
  MaxRestarts = 1
SYMMETRY Symmetry
INVARIANTS
  TypeOK
  NoGhosts
  AckDurable
  RejectedLeavesNoTrace
  AckStreamed
  CausalOrder
CHECK_DEADLOCK FALSE
