SPECIFICATION FairSpec
CONSTANTS
  Viewers = {"a", "b"}
  Sizes = {"small", "wide"}
  Tiles = {1, 2}
  Grid <- OneOrTwoTiles
  Pixels = {"black", "ink"}
  FirstSize = "small"
  TextureSize = "wide"
  Black = "black"
  MAX_TCP_CLIENTS = 2
  Bounds <- Few
INVARIANTS
  StopAndWait
  RestsCurrent
PROPERTIES
  Converges
CHECK_DEADLOCK FALSE
