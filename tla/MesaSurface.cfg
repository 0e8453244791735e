SPECIFICATION FairSpec
CONSTANTS
  Buffers = {b1, b2, b3}
  MaxContentBuffers = 3
  None = None
INVARIANTS TypeOK Ownership StageNeverFails PointersSound ChannelsDisciplined
PROPERTY RetiredIsReleased
CHECK_DEADLOCK FALSE
