SPECIFICATION Spec
CONSTANTS
  Choices = {{"video"}, {"audio", "video"}, {"video", "share"}}
  MaxConnects = 2
  MaxFails = 1
  MaxStack = 2
INVARIANTS WiredUp SendsAsAsked IdleIsClosed
CHECK_DEADLOCK FALSE
