SPECIFICATION FairSpec
CONSTANTS
  Users = {u1}
  Calls = {"send", "shutdown", "forceClose", "forceCloseWithDelay", "startRead"}
  MsgLen = 2
  highWaterMark_ = 3
  MaxCalls = 3
  MaxFunctors = 4
INVARIANTS WireInOrder WritesWhilePending DestroyedOnce DestructedClean
PROPERTY ClosedIsRemoved
CHECK_DEADLOCK FALSE
