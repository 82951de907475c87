SPECIFICATION FairSpec
CONSTANTS
  FRAME_MAX = 3
  CHUNK_MAX = 2
  Sizes = {0, 2}
  MaxCalls = 3
  MaxFaults = 1
INVARIANTS
  CompletedIsApplied
  OwnReplies
  DispatchedInOrder
PROPERTIES
  QueuedIsCompleted
CHECK_DEADLOCK FALSE
