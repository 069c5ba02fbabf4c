SPECIFICATION FaultySpec
CONSTANTS
  Resumed = 1
  MinFrames = 2
  Batch = 2
  Impatient = FALSE
  MaxFrames = 3
  MaxEpisodes = 3
CHECK_DEADLOCK FALSE
INVARIANT SavedWhole
