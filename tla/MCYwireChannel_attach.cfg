SPECIFICATION FairSpec
CONSTANTS
  NSlots = 1
  WINDOW_DEFAULT = 6
  CHUNK_MAX = 1
  HIGH_WATER = 2
  InitialWindows = {0}
  Attached = {"host"}
  Sinks = {"pull"}
  ShipMayFail = FALSE
  HalfClosers = {"client", "host"}
  Closers = {"client", "host"}
  MaxOpens <- ClientOpensOne
  MaxBytes <- NoneAndThree
PROPERTIES
  LingeringBytesWake
CHECK_DEADLOCK FALSE
