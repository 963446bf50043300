SPECIFICATION Spec
CONSTANTS
  UShort = 16
  IntLimit = 128
  ULong = 512
  MAX_PLAYERS = 2
  CommandLines <- MCCommandLines
  MaxLaunches = 2
  MaxLooks = 2
INVARIANTS TypeOK ParsedAsGiven OwnPlace OnlyFirstLookEarly FreshGame TurnsSurviveRestart LeavesNothing
CHECK_DEADLOCK FALSE
