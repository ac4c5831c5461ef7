SPECIFICATION FairSpec
CONSTANTS
  p1 = p1
  p2 = p2
  p3 = p3
  Processes <- MCProcesses
  MaxLoads = 6
INVARIANTS CreateExclusive SameRing
PROPERTIES GuidStable EventuallyInitialized
CHECK_DEADLOCK FALSE
