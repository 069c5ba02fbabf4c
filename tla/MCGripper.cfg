SPECIFICATION Spec
CONSTANTS
  Open = 2
  Part = 1
  MaxRetry = 1
  NONE = NONE
  Clicks = 2
  Homes = 1
  Rejects = 1
  Eaten = 1
  Losses = 1
  InFlight = 1
INVARIANTS Inv
PROPERTIES LastClickWins OpensInTheEnd DisconnectReturns
