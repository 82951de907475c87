SPECIFICATION Spec
CONSTANTS
  NSlots = 1
  WINDOW_DEFAULT = 2
  CHUNK_MAX = 2
  HIGH_WATER = 1
  InitialWindows = {0}
  Attached = {"host"}
  Sinks = {"pull"}
  ShipMayFail = TRUE
  HalfClosers = {"client"}
  Closers = {"client", "host"}
  MaxOpens <- ClientOpensTwo
  MaxBytes <- ThreeAndNone
INVARIANTS
  SealFollowsData
PROPERTIES
  ImplementsStream
CHECK_DEADLOCK FALSE
