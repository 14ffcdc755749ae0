SPECIFICATION FairSpec
CONSTANTS
  p1 = p1  p2 = p2  d1 = d1
  Session = {p1, p2, d1}
  Workload <- Separate
  MaxStatements = 3
INVARIANTS
  TypeOK
  NoHiddenDeadlock
PROPERTIES
  TransactionsEnd
CHECK_DEADLOCK FALSE
