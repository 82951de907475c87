SPECIFICATION FairSpec
CONSTANTS
  BacklogCap = 1
  MaxEvents = 3
  MaxCopies = 2
  MaxFaults = 1
INVARIANTS
  SequenceNamesOneEvent
  TakenInWireOrder
  InputConserved
  RawFollowsHit
PROPERTIES
  ImplementsQueue
  EveryInputIsTaken
CHECK_DEADLOCK FALSE
