SPECIFICATION Spec
CONSTANTS
  NSlots = 2
  WINDOW_DEFAULT = 3
  CHUNK_MAX = 1
  HIGH_WATER = 3
  InitialWindows = {0}
  Attached = {"host"}
  Sinks = {"push"}
  ShipMayFail = FALSE
  HalfClosers = {}
  Closers = {"client"}
  MaxOpens <- BothOpenOne
  MaxBytes <- TwoAndNone
INVARIANTS
  NoOrphan
  FairRounds
CHECK_DEADLOCK FALSE
