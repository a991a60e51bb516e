SPECIFICATION Spec
CONSTANTS
  j1 = j1
  j2 = j2
  k1 = k1
  t1 = t1
  t2 = t2
  None = None
  Jobs = {j1, j2}
  Keys = {k1}
  Limits <- OneLimit
  Delays <- NowOrLater
  LeaseSeconds = 1
  Threads = {t1, t2}
  WorkerOf <- OwnWorkerIds
  LockWait = 1
  MaxClock = 2
SYMMETRY Symmetry
 
PROPERTIES  LifecycleSpec
CHECK_DEADLOCK FALSE
