SPECIFICATION FairSpec
CONSTANTS
  Devices = {a, b}
  Rooms = {"p2p", "calliope", "lossy"}
  Echoes = TRUE
  Restarters = {a}
  MaxOpens = 3
INVARIANTS
  TypeOK
  FreshAnswer
  OneVenueAlive
  VenueReclaimed
PROPERTIES
  CountConverges
  NoGlare
  AllMeet
CHECK_DEADLOCK FALSE
