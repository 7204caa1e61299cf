SPECIFICATION Spec
CONSTANTS
  Sizes = {0, 1, 3}
  BufferSize = 2
  DwordMax = 2
  Quota = 2
  MaxSent = 3
  MaxWritten = 4
INVARIANTS
  TypeOK
  ReadConserves
  WriteConserves
  FailureTold
  PendingWakes
CHECK_DEADLOCK FALSE
