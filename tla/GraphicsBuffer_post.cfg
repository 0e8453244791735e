SPECIFICATION Spec
CONSTANTS
  MaxFrames = 4
  Pushers = {}
  MaxPushes = 0
  Disciplined = FALSE
INVARIANT PostMustSucceed
CHECK_DEADLOCK FALSE
