SPECIFICATION BootSpec
CONSTANTS
  WORD = 64
  PAGE_SIZE = 4
  KernelEnd = 10
  Starts = {0, 3, 6, 10, 12, 40}
  Lengths = {4, 11, 24}
  MaxAreas = 3
  Chunks = {0, 2}
  ImageChunks = {0, 1}
  ListBytes = 8
INVARIANTS
  WholePagesUsed
  EndsAsDue
  ReadyWhenUsed
PROPERTY BootEnds
CHECK_DEADLOCK FALSE
