SPECIFICATION Spec
CONSTANTS
  Buffers = {b1, b2, b3}
  MaxContentBuffers = 3
  None = None
INVARIANT ReleasedIsOffScreen
CHECK_DEADLOCK FALSE
