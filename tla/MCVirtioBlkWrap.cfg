CONSTANTS
  QSize = 4
  IdxMod <- MCIdxMod
  BlkSizes <- MCBlkSizes
  BufAddrs <- MCBufAddrs
  GuestBigEndian = TRUE
  Capacity = 2
  SectorMod = 16
  MaxBlock = 1
  MaxCnt = 1
  CmaSlots = 2
  MaxOutstanding = 4
SPECIFICATION Spec
INVARIANT AvailCountsSubmissions
