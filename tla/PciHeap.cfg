SPECIFICATION PciSpec
CONSTANTS
  Words = 8
  Tables = 4
  Entries = 64
  DirSize = 8
  FreeBase = 5
  FreeLengths = {256}
  KernelEnd = 4
  MaxCalls = 30
  UINT = 2097152
  TAG = 32
  MINEXP = 8
  MAXEXP = 21
  MAXCOMPLETE = 5
  PageSize = 4096
  PageCount = 16
  ArenaPages = 319
  Sizes = {3}
  MaxLive = 2
INVARIANT ListUsable
CHECK_DEADLOCK FALSE
