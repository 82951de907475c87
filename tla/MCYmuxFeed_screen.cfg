SPECIFICATION Spec
CONSTANTS
  TX_CAP = 4
  HIGH_WATER = 2
  MAX_UNACKED = 1
  RECOVER_LIMIT = 2
  RING = 1
  SOCKET = 2
  UPLINK = 2
  MaxText = 1
  MaxTop = 1
  MaxFigure = 1
  MaxModes = 0
  PIPELINE = 2
  MaxGen = 3
  MaxFaults = 0
INVARIANTS
  PublishIsAwaited
  RestsCurrent
PROPERTIES
  FramesStayWhole
CHECK_DEADLOCK FALSE
