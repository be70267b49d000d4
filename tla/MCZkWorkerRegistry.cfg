CONSTANTS
  p1 = p1
  p2 = p2
  Processes = {p1, p2}
  None = None
  WorkerSize = 4
  MAX_SIZE = 8
  RegistrationMayStall = FALSE
  MaxSessions = 3
  MaxFaults = 1
SPECIFICATION FairSpec
INVARIANTS ContentOwnsId OneNodePerSession
PROPERTIES RegistrationEnds LostSessionRegisters
CHECK_DEADLOCK FALSE
