SPECIFICATION Spec
CONSTANTS
  t1 = t1
  t2 = t2
  Threads <- MCThreads
  Items = 2
  Bits = 2
  Slots = 1
  Recycled = 2
  Pages = 2
  MaxChunks = 2
  MaxInUse = 3
INVARIANTS NoDoubleAllocation InUseIsMapped
SYMMETRY ThreadSymmetry
CHECK_DEADLOCK FALSE
