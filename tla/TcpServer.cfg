SPECIFICATION FairSpec
CONSTANTS
  base = base
  t1 = t1
  Base = base
  Others = {t1}
  MaxThreads = 2
  MaxConns = 3
  FdLimit = 2
  MaxDisturbed = 1
INVARIANTS ServedByPool OneWayOut NoUseAfterDestruct
PROPERTY ClientsServed
CHECK_DEADLOCK FALSE
