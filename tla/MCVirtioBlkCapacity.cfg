CONSTANTS
  QSize = 8
  IdxMod <- MCIdxMod
  BlkSizes <- MCBlkSizes
  BufAddrs <- MCBufAddrs
  GuestBigEndian = TRUE
  Capacity = 3
  SectorMod = 16
  MaxBlock = 3
  MaxCnt = 2
  CmaSlots = 2
  MaxOutstanding = 1
SPECIFICATION Spec
INVARIANT RequestWithinDisk
