SPECIFICATION MatchSpec
CONSTANTS
  Width = 4
  Height = 2
  PlayersCount = 2
  Rewards = {1, 9}
  Uint32Size = 64
  MaxInvalid = 1
  Strategies <- EveryoneAgainstNaive
  MayFail = {0}
INVARIANTS MoverTypeOK ChoiceAccepted GivesUpOnlyWhenShutIn StackFits FloodCountsRegion LookaheadOptimal SpaceKept
PROPERTIES FloodShrinks
