SPECIFICATION FairSpec
CONSTANTS
  Handles = {h1, h2, h3, h4}
  Calls = {c1, c2}
  None = None
  STALE_HANDLE_TIMEOUT_THRESHOLD = 2
  SendThrows = TRUE
  MaxRequests = 2
INVARIANTS
  TypeOK
  OneOpenHandle
  MissesAreCounted
PROPERTIES
  DeadHandleDropped
CHECK_DEADLOCK TRUE
