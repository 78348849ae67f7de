\* Violated: connecting fails and the request waits for ever.
CONSTANTS
  MaxConn = 4
  MaxWaiting = 2
  Request = {r1, r2}
  None = None
  ToPool = ToPool
  Tls = FALSE
  MaxConnections = 1
  LimitConnections = TRUE
  MaxRetry = 0
  MaxMore = 0
  Transfer = {"length"}
  Faults = {"connect"}
SPECIFICATION FairSpec
PROPERTIES
  EveryRequestCompletes
CHECK_DEADLOCK FALSE
