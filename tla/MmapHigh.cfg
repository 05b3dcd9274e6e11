SPECIFICATION Spec
CONSTANTS
  WORD = 64
  PAGE_SIZE = 4
  KernelEnd = 10
  Starts = {0, 16, 32, 64, 72}
  Lengths = {8, 12, 24}
  MaxAreas = 3
INVARIANTS FreeMemoryAvailable
CHECK_DEADLOCK FALSE
