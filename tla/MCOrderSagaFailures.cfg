SPECIFICATION Spec
CONSTANTS
  s1 = s1
  s2 = s2
  p1 = p1
  p2 = p2
  Products = {p1, p2}
  Sagas = {s1, s2}
  Items <- MCItems
  InitialStocks <- MCStocks
  MaxInt4 = 4
  PutStocks = {1}
  Faults = {"databaseError", "lostCommitAck", "refundError", "slowCreate"}
  MaxCrashes = 1
  NoReply = NoReply
CHECK_DEADLOCK FALSE
INVARIANTS OrderHadReservations OrderedProductsExist CanceledFullyRefunded FailedCreateKeepsNothing
PROPERTIES StatusIsFinal
