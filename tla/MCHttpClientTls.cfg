\* An https endpoint, two requests, each retried once, connections that fail.
CONSTANTS
  MaxConn = 2
  MaxWaiting = 2
  Request = {r1, r2}
  None = None
  ToPool = ToPool
  Tls = TRUE
  MaxConnections = 1
  LimitConnections = TRUE
  MaxRetry = 1
  MaxMore = 0
  Transfer = {"length"}
  Faults = {"connect", "drop", "malformed", "early"}
SPECIFICATION Spec
SYMMETRY Symmetry
INVARIANTS
  Watched
  Attended
PROPERTIES
  CompletedOnce
  NothingDisplaced
  NoOvertaking
CHECK_DEADLOCK FALSE
