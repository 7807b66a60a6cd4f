SPECIFICATION Spec
CONSTANTS
  SIZE = 24
  kMaxNumericSize = 6
  Half = 128
  rollSize_ = 24
  flushInterval_ = 1
  checkEveryN_ = 2
  kRollPerSeconds_ = 4
  localtime <- MCLocaltime
  MaxTime = 5
  MaxLines = 3
  TimeLen = 3
  NameLen = 1
  BasenameLen = 4
  Texts = {16}
  Numbers <- MCNumbers
  Doubles = {4}
  MaxItems = 2
INVARIANTS ConversionsExact LineFits FilesInOrder BoundedLoss
PROPERTY RollsInTime
CHECK_DEADLOCK FALSE
