SPECIFICATION FairSpec
CONSTANTS
  Devices = 3
  Functions = 3
  Topologies <- MCTopologies
  MayRunOut = TRUE
INVARIANTS ListComplete RecursionBounded
PROPERTIES ScanEnds
CHECK_DEADLOCK FALSE
