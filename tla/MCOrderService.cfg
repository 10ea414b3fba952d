SPECIFICATION MCSpec
CONSTANTS
  o1 = o1
  p1 = p1
  p2 = p2
  Requests = {1, 2, 3}
  Orders = {o1}
  Items <- MCItems
  MaxConns = 4
  Faults = {"disconnect", "databaseError", "lostCommitAck", "httpError", "httpTimeout", "crash"}
CHECK_DEADLOCK FALSE
INVARIANTS Inv CanceledMeansReturned OneWinner LossesWereReported
PROPERTIES RefinesLifecycle EveryCallAnswered OneCancelSucceeds
