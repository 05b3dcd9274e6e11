SPECIFICATION RtcFairSpec
CONSTANTS
  Calendars <- MCCalendars
  Holds = {2, 7}
INVARIANT TimestampWasTime
PROPERTIES TornOnlyByUpdate ReadReturns
CHECK_DEADLOCK FALSE
