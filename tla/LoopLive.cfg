SPECIFICATION AttendedSpec
CONSTANTS
  Master = Master
  View = View
  Games <- LivenessGames
PROPERTIES SignalEndsLoop TimeoutEndsLoop EveryoneExits MovesAreRead Terminates
