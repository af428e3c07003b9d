SPECIFICATION Spec
CONSTANTS
  PipeCap = 25
  BufLen = 22
  MaxBurst = 2
  Streams <- MCStreams
INVARIANTS
  LinesWhole
  FieldsAreRead
PROPERTIES
  EveryMessageRead
  NeverDeaf
CHECK_DEADLOCK FALSE
