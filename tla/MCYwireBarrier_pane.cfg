SPECIFICATION FairSpec
CONSTANTS
  NChannels = 1
  Kinds = {"rpc", "dcs"}
  DEADLINE = 3
  ACK_WAIT = 1
  LEASE = 1
  DRAIN_WAIT = 1
  Kills = TRUE
  MaxClients = 2
  MaxKeys = 2
  MaxResets = 1
INVARIANTS
  DrainTakesNoKey
  KeysInOrder
  ReleasedWhenGone
PROPERTIES
  EveryKeyTaken
CHECK_DEADLOCK FALSE
