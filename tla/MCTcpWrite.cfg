\* A client whose connection nothing breaks on its way, and two writes.
CONSTANTS
  Clients = {c1}
  Client = c1
  Callers = {t1}
  Workers = {w1}
  MaxWrites = 2
  MaxAcceptErrors = 0
  MayLose = FALSE
  Lengths <- MCLengths
SPECIFICATION FairSpec
PROPERTY
  EveryWriteTold
CHECK_DEADLOCK FALSE
