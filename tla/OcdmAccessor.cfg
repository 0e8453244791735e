SPECIFICATION Spec
CONSTANTS
  Threads = {t1, t2}
  Sessions = {s1}
  None = None
  MaxLives = 2
  Patient = TRUE
INVARIANTS TypeOK ProxiesBalance InterfacesAreAlive
PROPERTY SupportedReconnects
CHECK_DEADLOCK FALSE
