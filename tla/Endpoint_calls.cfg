SPECIFICATION Spec
CONSTANTS
  Modes = {"svs", "train"}
  MutedStart = {TRUE}
  NetWarning = TRUE
  Restarts = TRUE
  NoTrack = NoTrack
  MaxCalls = 2
  MaxSdps = 2
  MaxVideos = 2
INVARIANTS TypeOK TimersMeetState TracksCounted TransportAgrees Unheld MuteKept
CHECK_DEADLOCK FALSE
