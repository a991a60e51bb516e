SPECIFICATION FairSpec
CONSTANTS
  t1 = t1  t2 = t2  r1 = r1  r2 = r2  n1 = n1  k1 = k1  k2 = k2
  Threads = {t1, t2}
  Reviews = {r1, r2}
  PageOf <- OnePerPage
  Pages = 2
  Notices = {n1}
  Slots = {k1}
  None = None
  Allowance = 1
  MaxChanges = 1
  MaxFaults = 1
INVARIANTS DoneIsRecorded CachedIsAnnounced
PROPERTIES ReviewIsSeen
CHECK_DEADLOCK FALSE
