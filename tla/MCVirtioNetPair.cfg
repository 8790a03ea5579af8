\* Two devices at once, sharing last_rx_idx, last_tx_idx, net_hdr_size and
\* the arena (room for both instances' four regions).
CONSTANTS
  QSize = 4
  IdxMod = 16
  CmaSlots = 8
  TxInFlightBound = 1
  LoadsReorder = FALSE
SPECIFICATION Spec
INVARIANT EachInstanceRxCredits
