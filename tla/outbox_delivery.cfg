SPECIFICATION PartsSpec
CONSTANTS
  None = None
  Notifications = {1, 2, 3}
  KeyOf <- OwnKeys
  MaxAttempts = 2
  CountTo = 3
  Limit = 2
  Servers = {t1, t2}
  Threads = {t1, t2}
  ServerOf <- OwnProcess
  Daemons = {d1, d2}
  RaceDaemons = {d1}
  RaceNotifications = {1}
  MaxRestarts = 1
SYMMETRY Symmetry
INVARIANTS SentIsTrue DeadIsExhausted WorkersSendAtMostOne
CHECK_DEADLOCK FALSE
