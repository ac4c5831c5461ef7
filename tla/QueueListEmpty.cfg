SPECIFICATION Spec
CONSTANTS
  BlockSize = 2
  CounterLimit = 8
  MaxPush = 8
  MaxBatch = 3
  MaxNodes = 3
  MaxFrames = 2
  MaxStall = 1
INVARIANT EmptyIsExact
CHECK_DEADLOCK FALSE
