SPECIFICATION HomingSpec
CONSTANTS
  N = 2
  K = 3
  Home <- MCHome
  Wrist = {2}
  Pan = {1}
  Scales <- MCScales
  Step = 2
  AllowPartial = TRUE
  NoRoute = NoRoute
  MaxNodes = 6
  Attempts = 2
  Scenes <- MCScenes
  GateScale = 1
  Done = 0
  Settle = 1
  UsePlanner = TRUE
  Lead = 1
  Presses = 2
  BridgeScenes <- MCBridgeScenes
INVARIANTS NeverDeeper
