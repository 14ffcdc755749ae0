SPECIFICATION Spec
CONSTANTS
  p1 = p1  p2 = p2  d1 = d1
  Session = {p1, p2, d1}
  Workload <- Invalidating
  MaxStatements = 2
INVARIANTS
  NoHiddenDeadlock
CHECK_DEADLOCK FALSE
