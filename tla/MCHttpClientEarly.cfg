\* Violated: a write fails after the server has answered.
CONSTANTS
  MaxConn = 2
  MaxWaiting = 2
  Request = {r1, r2}
  None = None
  ToPool = ToPool
  Tls = FALSE
  MaxConnections = 1
  LimitConnections = TRUE
  MaxRetry = 0
  MaxMore = 0
  Transfer = {"length"}
  Faults = {"early", "drop"}
SPECIFICATION Spec
INVARIANTS
  NoNullResponse
CHECK_DEADLOCK FALSE
