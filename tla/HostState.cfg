SPECIFICATION Spec
CONSTANTS
  t1 = t1
  t2 = t2
  Threads <- MCThreads
  NHandles = 1
  RingLength = 2
  MaxLives = 2
  MaxCalls = 2
INVARIANTS CallerKnown AttachedIsKnown
PROPERTIES SignalReachesWaiters
SYMMETRY ThreadSymmetry
CHECK_DEADLOCK FALSE
