\* Two requests, at most three connections in all, over TLS, where a handshake
\* may succeed on a closed connection; the limits change at any time.
CONSTANTS
  MaxConn = 3
  Request = {r1, r2}
  None = None
  ToPool = ToPool
  Tls = TRUE
  MaxConnections = 2
  LimitConnections = TRUE
  Limits = {1, 2}
  MaxWaiting = 2
SPECIFICATION Spec
SYMMETRY Symmetry
INVARIANTS
  IndInv
  Accounting
  AvailableIdle
  QueueMoves
CHECK_DEADLOCK FALSE
