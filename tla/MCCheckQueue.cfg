CONSTANTS
  w1 = w1
  w2 = w2
  k1 = k1
  k2 = k2
  k3 = k3
  k4 = k4
  Worker = {w1, w2}
  Master = Master
  Check = {k1, k2, k3, k4}
  Bad = {k1}
  nBatchSize = 2
  MaxSessions = 2
SPECIFICATION Spec
INVARIANTS
  CountersExact
  ResultExact
  QuiescentAfterWait
PROPERTIES
  WaitReturns
  StopJoins
