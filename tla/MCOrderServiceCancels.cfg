SPECIFICATION MCSpec
CONSTANTS
  o1 = o1
  p1 = p1
  p2 = p2
  Requests = {1, 2, 3}
  Orders = {o1}
  Items <- MCItems
  MaxConns = 3
  Faults = {}
CHECK_DEADLOCK FALSE
PROPERTIES OneCancelSucceeds
