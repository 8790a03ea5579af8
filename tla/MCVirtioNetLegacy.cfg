\* One device, modern or legacy, on a CPU that keeps loads in order.
CONSTANTS
  QSize <- MCQSize
  IdxMod <- MCIdxMod
  CmaSlots <- MCCmaSlots
  TxInFlightBound <- MCTxPaced
  LoadsReorder = FALSE
SPECIFICATION Spec
INVARIANT LegacyNoFeaturesOk
