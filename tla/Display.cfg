SPECIFICATION DisplaySpec
CONSTANTS
  Width = 3
  Height = 3
  PlayersCount = 3
  Rewards = {1, 9}
  Uint32Size = 32
  MaxInvalid = 1
  Terminals <- TwoTerminals
INVARIANTS TypeOK StandsOnOwnCell ScoreMatchesCells FrameTruthful
PROPERTIES CapturedForever StepsAreAdjacent
