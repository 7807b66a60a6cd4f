SPECIFICATION Spec
CONSTANTS
  NULL = NULL
  Capacity = 2
  MaxLines = 5
INVARIANT TakenIsWritten
CHECK_DEADLOCK FALSE
