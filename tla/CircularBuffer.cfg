\* Four places, five after the storage has grown; up to three writes waiting.
CONSTANTS
  InitialCapacity = 4
  MaxCapacity = 5
  MaxPending = 3
SPECIFICATION Spec
INVARIANTS
  TypeOK
  PendingCovered
  PendingAreElements
PROPERTY
  AreasSafe
