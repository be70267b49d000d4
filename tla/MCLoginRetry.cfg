CONSTANTS
  t1 = t1
  t2 = t2
  Threads = {t1, t2}
  u1 = u1
  u2 = u2
  Keys = {u1, u2}
  Overlapping = {u2}
  Absent = Absent
  MaxRetry = 2
  MaxAttempts = 6
  MaxFaults = 1
SPECIFICATION FairSpec
INVARIANTS CountersExpire
PROPERTIES ImplementsRetryPolicy LockEnds
CHECK_DEADLOCK FALSE
