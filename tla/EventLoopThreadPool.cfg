SPECIFICATION LoopPoolFairSpec
CONSTANTS
  MaxThreads = 3
  CreateMayFail = TRUE
INVARIANTS LoopPointerValid QuitsLivingLoop
PROPERTIES StartReturns DestructorJoins
CHECK_DEADLOCK FALSE
