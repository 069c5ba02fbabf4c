SPECIFICATION Spec
CONSTANTS
  Secs = {"depth"}
  Period = 4
  Offsets = {1, 2}
  Tol = 6
  Hist = 4
  Learn = 2
  Window = 3
  NONE = NONE
  Triggers = 8
  StartAt = {0, 2, 3}
  Mishaps = 1
CHECK_DEADLOCK FALSE
INVARIANTS Inv
PROPERTIES NeverBack KeepsTrigger
