\* As long as connecting succeeds, no answer is early and bodies have a length:
\* liveness, and no write error finds a null response.
CONSTANTS
  MaxConn = 4
  MaxWaiting = 2
  Request = {r1, r2}
  None = None
  ToPool = ToPool
  Tls = FALSE
  MaxConnections = 1
  LimitConnections = TRUE
  MaxRetry = 0
  MaxMore = 0
  Transfer = {"length"}
  Faults = {"drop", "malformed"}
SPECIFICATION FairSpec
INVARIANTS
  NoNullResponse
PROPERTIES
  EveryRequestCompletes
  IdleConnectionsTimeOut
CHECK_DEADLOCK FALSE
