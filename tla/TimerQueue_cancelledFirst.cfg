SPECIFICATION Spec
CONSTANTS
  Threads = {t1}
  Addrs = {1, 2}
  MinDelay = 1
  Delays = {0, 2}
  Intervals = {0, 1}
  MaxTime = 2
  MaxTimers = 3
  MaxPending = 1
  MaxClockSets = 0
INVARIANT AlarmSet
CHECK_DEADLOCK FALSE
