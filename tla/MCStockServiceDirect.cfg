SPECIFICATION FairSpec
CONSTANTS
  Products = {p1}
  Sagas = {s1, s2}
  Requests = {h1, h2}
  Direct = {h1, h2}
  Sweeper = sweeper
  NoCall = NoCall
  MaxInt4 = 3
  MaxConns = 2
  Quantities <- MCQuantities
  InitialStocks <- MCStocks
CHECK_DEADLOCK FALSE
PROPERTIES EveryRequestAnswered
