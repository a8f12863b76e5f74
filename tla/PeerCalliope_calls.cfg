SPECIFICATION FairSpec
CONSTANTS
  ModesUsed = {"orpheus", "linus", "linus_auto"}
  AutoFloor = TRUE
  HttpMayFail = TRUE
  MaxStarts = 2
  MaxFloors = 2
INVARIANTS
  TypeOK
  CallbackMeetsEndpoint
  AuthorizedRequests
  ReplyMatchesState
  FreshAnswer
  TeardownOrder
PROPERTIES
  ConfluenceReleased
CHECK_DEADLOCK FALSE
