SPECIFICATION Spec
CONSTANTS
  Joints = {j}
  None = None
  VMax = 2
  AMax = 2
  Tau = 1
  FfTau = 0
  Snap = 2
  Stale = 2
  MaxErrors = 0
  Poses <- MCPoses
  Home = 0
  Speed = 1
  Lag = 1
  FeedMax = 1
  SendMax = 1
  GapMax = 1
  Done = 0
  Settle = 1
  Slack = 1
  Dwell = 1
  Grace = 2
  MaxPath = 2
  Attempts = 2
  Connections = 1
INVARIANTS Inv NeverSnaps LastPointFed
PROPERTIES LimitsHold Settles ThreadsEnd
