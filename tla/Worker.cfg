SPECIFICATION FairSpec
CONSTANTS
  NThreads = 2
  Appends = {0, 1}
  Duplicates = 1
  Priorities = {0}
  LimitCount = 0
  MaxTasks = 2
  StoreBuffer = TRUE
INVARIANTS EachTaskOnce NoSleepOverWork JoinRunsAll
PROPERTIES EventuallyRan EventuallyJoined
CHECK_DEADLOCK FALSE
