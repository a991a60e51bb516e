SPECIFICATION FairSpec
CONSTANTS
  s1 = s1
  s2 = s2
  t1 = t1
  t2 = t2
  d1 = d1
  d2 = d2
  None = None
  Notifications = {1, 2}
  KeyOf <- OneKey
  MaxAttempts = 2
  CountTo = 3
  Limit = 2
  Servers = {s1}
  Threads = {t1}
  ServerOf <- OneProcess
  Daemons = {}
  MaxRestarts = 1
PROPERTIES OnlyPendingIsDelivered 
CHECK_DEADLOCK FALSE
