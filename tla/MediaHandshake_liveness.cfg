SPECIFICATION FairSpec
CONSTANTS
  MAX_TRY_TIME = 2
  MaxConnects = 2
  MaxHosts = 1
  MaxTroubles = 1
PROPERTIES
  VerdictGiven
  Connects
  HangsUp
CHECK_DEADLOCK FALSE
