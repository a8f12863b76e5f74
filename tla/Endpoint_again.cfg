SPECIFICATION Spec
CONSTANTS
  Modes = {"plain"}
  MutedStart = {TRUE, FALSE}
  NetWarning = FALSE
  Restarts = FALSE
  NoTrack = NoTrack
  MaxCalls = 2
  MaxSdps = 2
  MaxVideos = 0
INVARIANTS NoUnmuteFirstTime
CHECK_DEADLOCK FALSE
