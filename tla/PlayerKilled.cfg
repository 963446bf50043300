SPECIFICATION FairSpec
CONSTANTS
  Master = Master
  View = View
  Games <- OnePlayerKilled
PROPERTY TimeoutEndsLoop
CHECK_DEADLOCK FALSE
