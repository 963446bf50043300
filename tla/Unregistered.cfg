SPECIFICATION Spec
CONSTANTS
  UShort = 16
  IntLimit = 128
  ULong = 512
  MAX_PLAYERS = 2
  CommandLines <- GameLines
  MaxLaunches = 1
  MaxLooks = 1
INVARIANT EveryPlayerFindsItself
CHECK_DEADLOCK FALSE
