SPECIFICATION Spec
CONSTANTS
  ModesUsed = {"linus_auto"}
  AutoFloor = TRUE
  HttpMayFail = FALSE
  MaxStarts = 2
  MaxFloors = 0
INVARIANTS
  AnswerHasSdp
CHECK_DEADLOCK FALSE
