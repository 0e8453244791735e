SPECIFICATION FairSpec
CONSTANTS
  MaxFrames = 2
  Pushers = {"main"}
  MaxPushes = 1
  Disciplined = FALSE
INVARIANTS TypeOK RequestIsSignalled PostIsSignalled
PROPERTIES DestroyedIsFinal RequestIsTaken PostIsTaken
CHECK_DEADLOCK FALSE
