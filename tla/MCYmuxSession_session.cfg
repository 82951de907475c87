SPECIFICATION FairSpec
CONSTANTS
  Clients = {"a", "b"}
  Sessions = {"s"}
  Sizes = {1, 2}
  Terminal <- Screens
  NewSize = 1
  Channels = {7, 9}
  MAX_ATTACHMENTS = 2
  PANE_RPC_CHANNELS = 1
  MAX_RPC_CHANNELS = 1
  PTY = 2
  Bounds <- Few
INVARIANTS
  ViewsMatch
  ControllerAlone
  CanonicalGeometry
  RelaysPairAtRest
PROPERTIES
  ControlIsNotStolen
  AppIsReleased
CHECK_DEADLOCK FALSE
