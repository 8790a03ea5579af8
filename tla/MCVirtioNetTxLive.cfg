\* The driver against a device that serves every notified TX queue: a
\* 4-entry queue (one TX slot) whose 3-bit indices wrap after two laps.
CONSTANTS
  QSize = 4
  IdxMod = 8
  CmaSlots <- MCCmaSlots
  TxInFlightBound = 1
  LoadsReorder = FALSE
SPECIFICATION FairSpec
PROPERTY TxEventuallySent
