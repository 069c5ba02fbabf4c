SPECIFICATION FairSpec
CONSTANTS
  Resumed = 1
  MinFrames = 2
  Batch = 2
  Impatient = FALSE
  MaxFrames = 3
  MaxEpisodes = 4
CHECK_DEADLOCK FALSE
INVARIANT SavedWhole
INVARIANT FinalizedLast
PROPERTY LogSpec
PROPERTY EveryEpisodeSaved
PROPERTY ShutdownEnds
