SPECIFICATION FairSpec
CONSTANTS
  Lines = {1, 3, 8, 15}
  Masked = {3, 12}
  HeapHandlers = {1, 8, 15}
  MaxRaises = 3
  MaxCalls = 1
  MaxExceptions = 1
INVARIANTS
  RightStub
  HandlersNestOnlyByUnlock
  HeapExclusive
  EoiEndsOwnLine
  NothingLeftInService
PROPERTIES
  ReportUndisturbed
  RequestsServed
CHECK_DEADLOCK FALSE
