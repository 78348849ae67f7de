\* Short writes, a broken connection and a server that cannot be reached. An
\* exchange fails only while a write is outstanding.
CONSTANTS
  MaxGiven = 4
  MaxArrived = 4
  FrameSize = 2
  Faults = {"connect", "short", "broken"}
SPECIFICATION FairSpec
INVARIANTS
  TypeOK
  OneWriteAtATime
  SentInOrder
  ParsedOnce
  NothingStranded
PROPERTIES
  EverythingWritten
  ErrorReported
CHECK_DEADLOCK FALSE
