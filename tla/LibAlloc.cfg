SPECIFICATION FairSpec
CONSTANTS
  UINT = 1048576
  TAG = 32
  MINEXP = 8
  MAXEXP = 20
  MAXCOMPLETE = 1
  PageSize = 4096
  PageCount = 16
  ArenaPages = 34
  Sizes = {100, 20000, 33000, 33010, 65490, 1048566}
  MaxLive = 3
INVARIANTS
  ListsSound
  BlocksTiled
  CompleteCounted
  AllocationsFit
PROPERTIES
  PagesReturnedWhole
  ImplementsHeap
  CallsReturn
CHECK_DEADLOCK FALSE
