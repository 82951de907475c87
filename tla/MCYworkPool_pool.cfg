SPECIFICATION FairSpec
CONSTANTS
  Submitters <- BothThreads
  Loop = "loop"
  MAX_THREADS = 2
  MaxJobs = 3
  MaxFaults = 1
INVARIANTS
  QueuedJobIsAttended
  PoolOutlivesWorkers
PROPERTIES
  EveryJobIsDone
  DestroyReturns
CHECK_DEADLOCK FALSE
