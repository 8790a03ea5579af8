CONSTANTS
  QSize <- MCQSize
  IdxMod <- MCIdxMod
  BlkSizes <- MCBlkSizes
  BufAddrs <- MCBufAddrs
  GuestBigEndian = TRUE
  Capacity = 3
  SectorMod = 16
  MaxBlock = 2
  MaxCnt = 2
  CmaSlots = 2
  MaxOutstanding = 1
SPECIFICATION FairSpec
PROPERTIES ExecutesSubmitted BlkRequestsSpec
