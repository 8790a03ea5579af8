\* The caller transmits until every TX chain of the ring is in flight.
CONSTANTS
  QSize <- MCQSize
  IdxMod <- MCIdxMod
  CmaSlots <- MCCmaSlots
  TxInFlightBound <- MCTxRingFull
  LoadsReorder = FALSE
SPECIFICATION Spec
PROPERTY TxDeliversInOrder
