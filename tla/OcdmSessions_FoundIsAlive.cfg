SPECIFICATION Spec
CONSTANTS
  Threads = {t1, t2}
  Sessions = {s1}
  Systems = {k1}
  None = None
  MaxReferences = 2
  Disciplined = FALSE
INVARIANT FoundIsAlive
CHECK_DEADLOCK FALSE
