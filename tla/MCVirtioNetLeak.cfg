\* Open and close the device: is every arena region given back?
CONSTANTS
  QSize <- MCQSize
  IdxMod <- MCIdxMod
  CmaSlots <- MCCmaSlots
  TxInFlightBound <- MCTxPaced
  LoadsReorder = FALSE
SPECIFICATION Spec
INVARIANT NoLeak
