SPECIFICATION Spec
CONSTANTS
  r1 = r1
  r2 = r2
  r3 = r3
  Requests = {r1, r2, r3}
  Rows = {1, 2, 3, 4}
  Keys = {"a", "b"}
  Faults = {"abort", "lostCommitAck", "crash"}
  NoKey = NoKey
  Gone = Gone
CHECK_DEADLOCK FALSE
SYMMETRY Permuted
INVARIANTS Inv
PROPERTIES RefinesRegistry
