SPECIFICATION Spec
CONSTANTS
  Bytes = {0, 1}
  Zero = 0
  MaxInput = 2
  Inputs <- MCInputs
  kCheapPrepend = 1
  kInitialSize = 2
  ExtraBufSize = 2
  MaxContent = 3
INVARIANT TypeOK
PROPERTY ImplementsByteQueue
