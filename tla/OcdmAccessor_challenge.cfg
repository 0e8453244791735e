SPECIFICATION Spec
CONSTANTS
  Threads = {t1, t2}
  Sessions = {s1}
  None = None
  MaxLives = 2
  Patient = FALSE
INVARIANT SessionCallsHaveSession
CHECK_DEADLOCK FALSE
