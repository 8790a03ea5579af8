\* The driver on a CPU that may reorder loads (ARMv8, which the dsb-based
\* barriers of the build target): virtionet_receive has no barrier between
\* its load of used->idx and its loads of the used entry and the buffer.
CONSTANTS
  QSize <- MCQSize
  IdxMod <- MCIdxMod
  CmaSlots <- MCCmaSlots
  TxInFlightBound <- MCTxPaced
  LoadsReorder = TRUE
SPECIFICATION Spec
PROPERTY RxDeliversInOrder
