SPECIFICATION Spec
CONSTANTS
  Width = 2
  Height = 2
  PlayersCount = 2
  Rewards = {1}
  Uint32Size = 32
  MaxInvalid = 0
INVARIANT StartCellsMarked
CHECK_DEADLOCK FALSE
