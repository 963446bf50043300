SPECIFICATION FairSpec
CONSTANTS
  Master = Master
  View = View
  Games <- ViewInterrupted
PROPERTY LostViewNoticed
CHECK_DEADLOCK FALSE
