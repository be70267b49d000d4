CONSTANTS
  t1 = t1
  t2 = t2
  Threads = {t1, t2}
  u1 = u1
  Keys = {u1}
  Overlapping = {u1}
  Absent = Absent
  MaxRetry = 2
  MaxAttempts = 5
  MaxFaults = 0
SPECIFICATION Spec
INVARIANTS AtMostMaxRetryEver
SYMMETRY ThreadSymmetry
CHECK_DEADLOCK FALSE
