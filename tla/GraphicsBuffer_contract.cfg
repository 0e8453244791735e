SPECIFICATION FairSpec
CONSTANTS
  MaxFrames = 3
  Pushers = {}
  MaxPushes = 0
  Disciplined = TRUE
INVARIANTS RequestMustSucceed PostMustSucceed NoNestedRequest
PROPERTY ContractHolds
CHECK_DEADLOCK FALSE
