SPECIFICATION Spec
CONSTANTS
  s1 = s1
  s2 = s2
  t1 = t1
  t2 = t2
  d1 = d1
  d2 = d2
  None = None
  Notifications = {1}
  KeyOf <- OwnKeys
  MaxAttempts = 2
  CountTo = 3
  Limit = 1
  Servers = {s1, s2}
  Threads = {t1, t2}
  ServerOf <- TwoProcesses
  Daemons = {}
  MaxRestarts = 0
PROPERTY OnlyPendingIsDelivered
CHECK_DEADLOCK FALSE
