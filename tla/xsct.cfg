SPECIFICATION FairSpec
CONSTANTS
  cc_threads = 2
  cc_add_days_repetitions = 1
  MayFailToConnect <- FirstThread
  MayFailToExecute <- FirstThread
INVARIANTS
  TypeOK
  DoneIsLast
  NoLostWakeup
  ChangeNotifiedOnce
PROPERTIES
  MainReturns
CHECK_DEADLOCK FALSE
