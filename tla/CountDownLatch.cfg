SPECIFICATION LatchFairSpec
CONSTANTS
  w1 = w1
  w2 = w2
  w3 = w3
  c1 = c1
  c2 = c2
  NoThread = NoThread
  Waiters = {w1, w2, w3}
  Counters = {c1, c2}
  Threads = {w1, w2, w3, c1, c2}
INVARIANTS HolderRight ReturnIsSafe
PROPERTIES WaitReturns
CHECK_DEADLOCK FALSE
