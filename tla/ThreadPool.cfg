SPECIFICATION FairSpec
CONSTANTS
  Workers = {w1, w2}
  Clients = {c1, c2}
  Tasks = {k1, k2, k3, k4, k5}
  NoTask = NoTask
  Nested = {k1, k2}
  maxQueueSize_ = 2
INVARIANTS NoLostTask NoLostSlot
PROPERTIES TasksRun StopReturns
CHECK_DEADLOCK FALSE
