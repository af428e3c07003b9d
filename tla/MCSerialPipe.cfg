\* Both directions together: order, and progress of the transmit side and of the interrupt routines.
CONSTANTS
  TxCap = 2
  RxCap = 1
  HwCap = 1
  HwRxCap = 1
  MaxPut = 3
  MaxGet = 2
  MaxTx = 4
  MaxRx = 3
SPECIFICATION FairSpec
INVARIANTS TypeOK TxArmed RxInOrder
CHECK_DEADLOCK FALSE
PROPERTIES PipesAreFifos EveryByteSent BlockingPutReturns IsrReturns
