SPECIFICATION Spec
CONSTANTS
  Master = Master
  View = View
  Games <- SafetyGames
INVARIANTS TypeOK TurnConservation RecvNeverBlocks MoveFromCurrentPosition ScreenOneRoundBehind
PROPERTIES ViewUndisturbed BoardUndisturbed
