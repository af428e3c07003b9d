CONSTANTS
  Threads = {t1, t2}
  Nobody = Nobody
  NUMPROFILES = 2
  Calls = {"find", "setParAddress"}
  MaxDepth = 2
  MaxRunning = 1
  LateAnswers = FALSE
SPECIFICATION Spec
INVARIANT LockBalanced
CHECK_DEADLOCK FALSE
