SPECIFICATION FairSpec
CONSTANTS
  s1 = s1
  s2 = s2
  p1 = p1
  p2 = p2
  Products = {p1, p2}
  Sagas = {s1}
  Items <- MCOneItems
  InitialStocks <- MCAmpleStocks
  MaxInt4 = 4
  PutStocks = {0}
  Faults = {"crash", "timeout", "disconnect", "lostReply", "lostPublish", "databaseError", "lostCommitAck", "httpError", "refundError"}
  MaxCrashes = 2
  NoReply = NoReply
CHECK_DEADLOCK FALSE
INVARIANTS TypeOK OrderHadReservations OrderedProductsExist
PROPERTIES CommitHoldsUnits CreateTerminates OrphansAreReleased
