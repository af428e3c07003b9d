CONSTANTS
  Threads = {t1, t2}
  Nobody = Nobody
  NUMPROFILES = 2
  Calls = {"find", "setBlocking", "command"}
  MaxDepth = 1
  MaxRunning = 1
  LateAnswers = TRUE
SPECIFICATION FairSpec
INVARIANT PendingWhileWaiting
PROPERTY CallsReturn
