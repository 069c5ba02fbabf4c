SPECIFICATION FairSpec
CONSTANTS
  Active = {"pan", "lift"}
  Passive = {"other"}
  Reach <- MCReach
  MaxDelta = 1
  Horizon = 2
  Colliding <- MCColliding
  Hold = Hold
PROPERTY StepBounded
PROPERTY CommandCleared
PROPERTY AcceptableFollowed
