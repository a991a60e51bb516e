SPECIFICATION FairSpec
CONSTANTS
  j1 = j1
  j2 = j2
  o1 = o1
  o2 = o2
  k1 = k1
  p1 = p1
  p2 = p2
  t1 = t1
  t2 = t2
  None = None
  Jobs = {j1, j2}
  Orgs = {o1}
  Keys = {k1}
  Payloads = {p1}
  Priorities <- TwoPriorities
  Limits <- OneLimit
  Threads = {t1, t2}
  WorkerOf <- OwnWorkerIds
  MaxExpiries = 1
INVARIANTS RetryBudget OneJobPerKey
PROPERTIES StaleRunsAreRefused LifecycleSpec EveryJobSettles
CHECK_DEADLOCK FALSE
