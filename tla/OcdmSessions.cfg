SPECIFICATION FairSpec
CONSTANTS
  Threads = {t1, t2}
  Sessions = {s1, s2}
  Systems = {k1, k2}
  None = None
  MaxReferences = 2
  Disciplined = TRUE
INVARIANTS TypeOK MapIsSafe HeldMeansAlive DestroyedOnce
PROPERTIES StandingKeyIsFound GetReturns
CHECK_DEADLOCK FALSE
