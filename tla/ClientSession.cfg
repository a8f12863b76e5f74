CONSTANTS
  Reconnects = {TRUE, FALSE}
  LateReports = TRUE
  MaxSends = 2
  MaxCalls = 2
  MaxBreaks = 2
  MaxFails = 1
SPECIFICATION Spec
CHECK_DEADLOCK FALSE
INVARIANTS TypeOK OneAttempt NeverStuck
PROPERTIES Ordered Flushed
