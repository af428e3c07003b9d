SPECIFICATION Spec
CONSTANTS
  Threads = {t1, t2}
  Calls <- MCCalls
  Ixs = {1, 2}
  MAX_SIZE = 2
  MaxFile = 3
  Garbage = {1}
  MaxCalls = 3
  MaxLost = 1
  MaxLate = 1
SYMMETRY Symmetry
INVARIANTS
  ResultIsTrue
  BlocksAreTheFile
  PositionIsOfRequest
CHECK_DEADLOCK FALSE
