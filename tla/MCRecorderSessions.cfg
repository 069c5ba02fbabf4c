SPECIFICATION SessionsSpec
CONSTANTS
  Resumed = 0
  MinFrames = 2
  Batch = 2
  Impatient = TRUE
  MaxFrames = 2
  MaxEpisodes = 4
  MaxSessions = 3
CHECK_DEADLOCK FALSE
INVARIANTS Inv LoadsComplete AnnouncedIsNew
