SPECIFICATION Spec
CONSTANTS
  d1 = d1
  d2 = d2
  s1 = s1
  s2 = s2
  t1 = t1
  t2 = t2
  t3 = t3
  None = None
  Decisions = {d1, d2}
  Servers = {s1}
  Threads = {t1, t2}
  ServerOf <- OneProcess
  MaxDossiers = 2
  MaxFaults = 0
INVARIANT SubmissionsAreApproved
CHECK_DEADLOCK FALSE
