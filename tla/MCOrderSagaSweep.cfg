SPECIFICATION Spec
CONSTANTS
  s1 = s1
  s2 = s2
  p1 = p1
  p2 = p2
  Products = {p1, p2}
  Sagas = {s1}
  Items <- MCOneItems
  InitialStocks <- MCAmpleStocks
  MaxInt4 = 2
  PutStocks = {}
  Faults = {}
  MaxCrashes = 1
  NoReply = NoReply
CHECK_DEADLOCK FALSE
PROPERTIES SweepReleasesOnlyOrphans
