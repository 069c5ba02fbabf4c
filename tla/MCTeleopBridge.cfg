SPECIFICATION FairSpec
CONSTANTS
  Prompt = TRUE
  LockToggles = TRUE
  HomeOnStop = TRUE
  MaxWaypoints = 2
  LegTicks = 1
  BlendTicks = 2
INVARIANT ModeExclusion
INVARIANT EpisodeTail
INVARIANT NoStaleBlend
INVARIANT NoReplay
INVARIANT TurnsRegistered
INVARIANT ResyncedCommands
PROPERTY HomingEnds
PROPERTY StopHonoured
