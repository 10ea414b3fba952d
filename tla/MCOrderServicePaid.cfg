SPECIFICATION Spec
CONSTANTS
  o1 = o1
  p1 = p1
  p2 = p2
  Requests = {1, 2, 3}
  Orders = {o1}
  Items <- MCItems
  MaxConns = 3
  Faults = {"httpError"}
CHECK_DEADLOCK FALSE
INVARIANTS PaidKeepsUnits
