SPECIFICATION MCSpec
CONSTANTS
  i1 = i1
  i2 = i2
  i3 = i3
  i4 = i4
  a = a
  b = b
  Requests = {1, 2, 3}
  Rows = {i1, i2, i3, i4}
  Keys = {a, b}
  Arrivals <- MCArrivals
  MaxCents = 9
  Faults = {"abort", "lostCommitAck", "crash"}
  NoKey = NoKey
  Gone = Gone
CHECK_DEADLOCK FALSE
INVARIANTS Inv
PROPERTIES RefinesRegistry OnlyPutReprices EveryRequestAnswered
