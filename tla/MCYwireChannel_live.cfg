SPECIFICATION FairSpec
CONSTANTS
  NSlots = 1
  WINDOW_DEFAULT = 4
  CHUNK_MAX = 1
  HIGH_WATER = 1
  InitialWindows = {0}
  Attached = {}
  Sinks = {"pull"}
  ShipMayFail = FALSE
  HalfClosers = {"client"}
  Closers = {"client", "host"}
  MaxOpens <- ClientOpensOne
  MaxBytes <- FiveAndNone
INVARIANTS
  CreditConserved
  BlockedSenderIsWoken
PROPERTIES
  FlushedIsDelivered
  CloseReleasesBoth
CHECK_DEADLOCK FALSE
