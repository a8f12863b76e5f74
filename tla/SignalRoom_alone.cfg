SPECIFICATION FairSpec
CONSTANTS
  Devices = {a}
  Rooms = {"hasty"}
  Echoes = FALSE
  Restarters = {}
  MaxOpens = 2
PROPERTIES
  FirstOneStarts
CHECK_DEADLOCK FALSE
