SPECIFICATION FairSpec
CONSTANTS
  TX_CAP = 4
  HIGH_WATER = 2
  MAX_UNACKED = 1
  RECOVER_LIMIT = 2
  RING = 1
  SOCKET = 1
  UPLINK = 2
  PIPELINE = 1
  MaxText = 1
  MaxTop = 0
  MaxFigure = 0
  MaxModes = 1
  MaxGen = 3
  MaxFaults = 1
INVARIANTS
  WindowReopens
PROPERTIES
  CatchesUp
CHECK_DEADLOCK FALSE
