SPECIFICATION Spec
CONSTANTS
  UINT = 512
  Chars <- MCChars
  MaxFormat = 4
  Beyond <- MCBeyond
  Values <- MCValues
  Strings <- MCStrings
INVARIANTS PrintsExpansion StopsAtZero
CHECK_DEADLOCK FALSE
