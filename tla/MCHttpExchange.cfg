\* Two requests: the first with every URI, parameter, sequence of setters and
\* answer of MCHttpExchange, the second to the same pool or another.
CONSTANTS
  Capital <- MCCapital
  Code <- MCCode
  Number <- MCNumber
  Character <- MCCharacter
  Work <- MCWork
  MaxConnections = {1}
  MaxRetry = 1
SPECIFICATION Spec
INVARIANTS
  UriUnderstood
  ParamUnderstood
  RequestHeard
  LengthAnnounced
  OwnPool
  AnswerRead
PROPERTIES
  EveryAnswerRead
CHECK_DEADLOCK FALSE
