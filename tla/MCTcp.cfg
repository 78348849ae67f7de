\* A client; two threads write to its stream, two run its handlers (one does
\* both), and two messages may arrive.
CONSTANTS
  Clients = {c1}
  Client = c1
  Callers = {t1, w1}
  Workers = {w1, w2}
  MaxWrites = 3
  MaxAcceptErrors = 1
  MayLose = TRUE
  Lengths <- MCLengths
SPECIFICATION FairSpec
INVARIANTS
  OneWriteAtATime
  SentInOrder
PROPERTY
  StreamProgress
CHECK_DEADLOCK FALSE
