SPECIFICATION Spec
CONSTANTS
  o1 = o1
  o2 = o2
  o3 = o3
  p1 = p1
  p2 = p2
  Orders = {o1, o2, o3}
  Items <- MCItems
  Products = {p1, p2}
  Prices = {0, 1}
  InitialPrices = {1}
  MaxPuts = 1
  MaxCents = 3
  Readers = {1}
  Limit = 1
  Faults = {"error", "lostCommitAck", "crash"}
  NoRow = NoRow
SYMMETRY Permuted
CHECK_DEADLOCK FALSE
INVARIANTS Inv PagesMissNothing
PROPERTIES RefinesOrderBook
