SPECIFICATION Spec
CONSTANTS
  Words = 4
  Tables = 2
  Entries = 64
  DirSize = 8
  FreeBase = 5
  FreeLengths = {100, 200}
  KernelEnd = 4
  Counts = {20, 64}
  Watched = {33}
  MaxCalls = 4
INVARIANTS
  TypeOK
  FrameSafety
  NoTableAbort
  DirectorySound
  BlocksSoundUntilMisfree
  HolesAreWordEnds
  TlbCoherent
CHECK_DEADLOCK FALSE
