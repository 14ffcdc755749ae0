SPECIFICATION Spec
CONSTANTS
  Backend = {p1, p2}
  a = a  b = b  c = c
  Name = {a, b, c}
  MaxVersion = 1
  Tables <- TwoVersions
  AskedId = {1}
  AskedName = {a}
  ShmemUnits = 0
  AllocCost = 0
  FailingQuery = {}
INVARIANTS
  NeverLost
