SPECIFICATION MatchSpec
CONSTANTS
  Width = 49155
  Height = 1
  PlayersCount = 2
  Rewards = {1}
  Uint32Size = 1000000
  MaxInvalid = 0
  Strategies <- EveryoneGreedy
  MayFail = {}
INVARIANT GivesUpOnlyWhenShutIn
