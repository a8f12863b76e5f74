SPECIFICATION FairSpec
CONSTANTS
  ModesUsed = {"orpheus", "linus", "linus_auto"}
  DirectUsed = {TRUE, FALSE}
  AutoFloor = FALSE
  MaxActs = 3
INVARIANTS
  CallbacksMeetEndpoints
  BothInOneVenue
PROPERTIES
  CallSetUp
CHECK_DEADLOCK FALSE
