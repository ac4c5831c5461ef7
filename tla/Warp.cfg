SPECIFICATION FairSpec
CONSTANTS
  NThreads = 2
  MaxTasks = 2
  MaxCalls <- MCMaxCalls
INVARIANTS MutualExclusion
PROPERTIES ParallelExcludes StrandSpec EventuallyRan
CHECK_DEADLOCK FALSE
