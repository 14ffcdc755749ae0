SPECIFICATION Spec
CONSTANTS
  Backend = {p1, p2}
  a = a  b = b  c = c
  Name = {a, b, c}
  MaxVersion = 2
  Tables <- TwoVersions
  AskedId = {1, 2, 3}
  AskedName = {a, b}
  ShmemUnits = 0
  AllocCost = 0
  FailingQuery = {}
INVARIANTS
  FilledIsOneVersion
  NamesExact
  ByIdFromOneVersion
  ByNameFromOneVersion
  FillSucceeds
PROPERTIES
  FilledOnlyDropped
  FillsFromOwnSnapshot
  ReportOfFilledCache
  KeepsPromise
