CONSTANTS
  QSize = 8
  IdxMod <- MCIdxMod
  BlkSizes <- MCBlkSizes
  BufAddrs <- MCBufAddrs
  GuestBigEndian = TRUE
  Capacity = 6
  SectorMod = 4
  MaxBlock = 5
  MaxCnt = 1
  CmaSlots = 2
  MaxOutstanding = 1
SPECIFICATION Spec
PROPERTY AccessesRequestedSector
