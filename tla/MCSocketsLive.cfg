CONSTANTS
  NUMSOCKETS = 1
  MAX_SIZE = 1
  Handles = {0}
  Calls = {"socket", "connect", "setBlocking", "close", "free", "send", "sendTo", "readable", "recv", "recvFrom"}
  MaxLen = 2
  MaxBuffered = 1
  MaxLines = 1
  MaxLost = 1
  MaxCreated = 1
  LateAnswers = TRUE
SPECIFICATION FairSpec
PROPERTY CallsReturn
CHECK_DEADLOCK FALSE
