CONSTANTS
  NUMSOCKETS = 1
  MAX_SIZE = 1
  Handles = {0, 1}
  Calls = {"socket", "sendTo"}
  MaxLen = 1
  MaxBuffered = 1
  MaxLines = 2
  MaxLost = 0
  MaxCreated = 2
  LateAnswers = FALSE
SPECIFICATION Spec
INVARIANT SentWasAccepted
CHECK_DEADLOCK FALSE
