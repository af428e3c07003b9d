\* The calls with answers in time; setBlocking is left to MCSocketsLive, socketSend too.
CONSTANTS
  NUMSOCKETS = 1
  MAX_SIZE = 2
  Handles = {0, 1}
  Calls = {"socket", "connect", "close", "free", "sendTo", "readable", "recv", "recvFrom"}
  MaxLen = 2
  MaxBuffered = 2
  MaxLines = 2
  MaxLost = 1
  MaxCreated = 2
  LateAnswers = FALSE
SPECIFICATION Spec
INVARIANTS TypeOK AnswersAreOwn ConnectedIsConnected PendingIsHeld RecvFromCounts FailureReported
PROPERTIES SocketsAreService ClosedIsClosed
CHECK_DEADLOCK FALSE
