SPECIFICATION Spec
CONSTANTS
  MAX_TRY_TIME = 2
  MaxConnects = 2
  MaxHosts = 2
  MaxTroubles = 1
INVARIANTS
  TypeOK
  GiveUpSafe
  Agreement
CHECK_DEADLOCK FALSE
