SPECIFICATION Spec
CONSTANTS
  Buffers = {b1, b2, b3}
  MaxContentBuffers = 3
  None = None
INVARIANT PendingIsAwaited
CHECK_DEADLOCK FALSE
