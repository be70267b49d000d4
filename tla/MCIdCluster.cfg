CONSTANTS
  p1 = p1
  p2 = p2
  Processes = {p1, p2}
  None = None
  SequenceSize = 2
  WorkerSize = 3
  DatacenterSize = 1
  BusinessSize = 1
  TimeSize = 4
  MAX_SIZE = 8
  RegistrationMayStall = TRUE
  MaxSessions = 3
  MaxFaults = 0
  StartSequences <- MCStarts
  MaxClock = 1
  MaxStepBacks = 1
  MaxIds = 2
SPECIFICATION ClusterSpec
INVARIANTS UniqueWhileEntitled
SYMMETRY ProcessSymmetry
CHECK_DEADLOCK FALSE
