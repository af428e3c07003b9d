\* Both contexts, every interleaving: 2 usable cells, chunks that wrap. The fairness is that of the writer alone.
CONSTANTS
  S = 3
  Data = {d1, d2}
  NoData = NoData
  MaxBurst = 3
  Bursts <- MCBursts
  MaxGet = 3
  MaxSent = 4
SPECIFICATION FairSpec
INVARIANTS TypeOK NoOverwrite PeekIsStream
PROPERTIES FifoSpec NonBlockingPutReturns
CHECK_DEADLOCK FALSE
