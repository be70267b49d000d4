CONSTANTS
  c1 = c1
  c2 = c2
  Channels = {c1, c2}
  u1 = u1
  Users = {u1}
  None = None
  Supported = {c1}
  MaxLogins = 0
  MaxRestarts = 0
SPECIFICATION Spec
INVARIANTS RefusedIsUnsupported
CHECK_DEADLOCK FALSE
