SPECIFICATION Spec
CONSTANTS
  Backend = {p1, p2}
  a = a  b = b  c = c
  Name = {a, b, c}
  MaxVersion = 3
  Tables <- FailingVersions
  AskedId = {1, 2}
  AskedName = {b}
  ShmemUnits = 14
  AllocCost = 1
  FailingQuery = {"q0", "q1", "q2", "q3"}
INVARIANTS
  TypeOK
  LockDiscipline
  FilledIsOneVersion
  EntryCountExact
PROPERTIES
  StableWhileRead
