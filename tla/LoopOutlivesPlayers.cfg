SPECIFICATION FairSpec
CONSTANTS
  Master = Master
  View = View
  Games <- QuietView
PROPERTY LoopEndsWithPlayers
