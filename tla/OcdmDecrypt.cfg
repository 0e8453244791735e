SPECIFICATION FairSpec
CONSTANTS
  Threads = {t1, t2, t3}
  Sessions = {s1, s2}
  Data = {d1, d2}
  None = None
  MaxCalls = 1
INVARIANTS TypeOK BufferIsExclusive OwnAnswer
PROPERTY DecryptReturns
CHECK_DEADLOCK FALSE
