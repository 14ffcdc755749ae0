SPECIFICATION Spec
CONSTANTS
  Day <- BoundaryDay
  MaxEntries = 2
  InputDay <- AskedDay
  Interval <- Steps
  Beyond <- Zeros
  PG_INT32_MAX = 127
INVARIANTS
  FutureIsInfinite
