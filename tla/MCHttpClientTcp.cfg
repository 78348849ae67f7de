\* An http endpoint, two requests on one connection at a time, everything may fail.
CONSTANTS
  MaxConn = 3
  MaxWaiting = 2
  Request = {r1, r2}
  None = None
  ToPool = ToPool
  Tls = FALSE
  MaxConnections = 1
  LimitConnections = TRUE
  MaxRetry = 0
  MaxMore = 1
  Transfer = {"chunked", "length"}
  Faults = {"connect", "drop", "early", "unsolicited", "malformed"}
SPECIFICATION Spec
SYMMETRY Symmetry
INVARIANTS
  TypeOK
  ParsingHasResponse
  Watched
  IdleIsAvailable
  WithinLimit
  WaitersOnlyWhenFull
PROPERTIES
  NothingDisplaced
CHECK_DEADLOCK FALSE
