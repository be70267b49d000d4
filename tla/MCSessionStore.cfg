CONSTANTS
  t1 = t1
  t2 = t2
  t3 = t3
  Threads = {t1, t2, t3}
  Validator = Validator
  s1 = s1
  Keys = {s1}
  Absent = Absent
  MaxFaults = 1
SPECIFICATION Spec
INVARIANTS SessionsExpire StoppedIsDeleted
PROPERTIES GoneForGood LingeringSwept
SYMMETRY ThreadSymmetry
