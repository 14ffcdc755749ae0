SPECIFICATION FairSpec
CONSTANTS
  Backend = {p1, p2}
  a = a  b = b  c = c
  Name = {a, b, c}
  MaxVersion = 3
  Tables <- EmptyVersions
  AskedId = {1, 2}
  AskedName = {a}
  ShmemUnits = 0
  AllocCost = 0
  FailingQuery = {"q3"}
INVARIANTS
  NoLockDeadlock
PROPERTIES
  CallsReturn
