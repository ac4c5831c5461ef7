SPECIFICATION FairSpec
CONSTANTS
  MaxRoutines = 3
  MaxOrders = 3
  MaxRounds = 2
  MaxSuspends = 1
  MaxFailures = 1
  Cyclic = FALSE
  Junctions = FALSE
  ResumeFails = FALSE
INVARIANTS AcyclicIsValid OrderRespected CompletionMeansAll
PROPERTIES EventuallyCompletes
CHECK_DEADLOCK FALSE
