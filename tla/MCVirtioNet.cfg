\* The driver against a device, on a CPU that keeps loads in program order.
CONSTANTS
  QSize <- MCQSize
  IdxMod <- MCIdxMod
  CmaSlots <- MCCmaSlots
  TxInFlightBound <- MCTxPaced
  LoadsReorder = FALSE
SPECIFICATION Spec
INVARIANT TypeOK
INVARIANT RxRingPartition
PROPERTY RxDeliversInOrder
PROPERTY TxDeliversInOrder
