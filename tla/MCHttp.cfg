CONSTANTS
  Threads = {t1, t2}
  Nobody = Nobody
  NUMPROFILES = 2
  Calls = {"find", "setBlocking", "free", "reset", "setPar", "setParAddress", "command", "commandUnsupported"}
  MaxDepth = 2
  MaxRunning = 2
  LateAnswers = FALSE
SPECIFICATION Spec
INVARIANTS OneThreadTalks ProfileHasOneUser ResultIsOwn
CHECK_DEADLOCK FALSE
SYMMETRY ThreadSymmetry
