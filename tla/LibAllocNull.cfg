SPECIFICATION Spec
CONSTANTS
  UINT = 1048576
  TAG = 32
  MINEXP = 8
  MAXEXP = 20
  MAXCOMPLETE = 1
  PageSize = 4096
  PageCount = 16
  ArenaPages = 16
  Sizes = {100, 20000, 33000}
  MaxLive = 3
INVARIANT ReallocReturnsNull
CHECK_DEADLOCK FALSE
