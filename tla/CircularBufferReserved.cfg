\* The areas of write_buffers, held against what its comment says of them.
CONSTANTS
  InitialCapacity = 4
  MaxCapacity = 5
  MaxPending = 3
SPECIFICATION Spec
INVARIANT
  AreasReserved
