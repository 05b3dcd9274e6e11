SPECIFICATION Spec
CONSTANTS
  Words = 2
  Tables = 1
  Entries = 64
  DirSize = 5
  FreeBase = 5
  FreeLengths = {50, 64}
  KernelEnd = 4
  MaxCalls = 5
  UINT = 1048576
  TAG = 32
  MINEXP = 8
  MAXEXP = 20
  MAXCOMPLETE = 1
  PageSize = 4096
  PageCount = 16
  ArenaPages = 127
  Sizes = {100, 61440, 65510, 250000}
  MaxLive = 2
INVARIANT FaultsOnlyAtHoles
PROPERTIES
  KeepsPromise
  CallsEnd
CHECK_DEADLOCK FALSE
