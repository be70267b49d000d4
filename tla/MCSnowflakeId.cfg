CONSTANTS
  t1 = t1
  t2 = t2
  Threads = {t1, t2}
  None = None
  SequenceSize = 3
  WorkerSize = 2
  DatacenterSize = 2
  BusinessSize = 2
  TimeSize = 8
  Businesses <- MCBusinesses
  Workers <- MCWorkers
  StartSequences <- MCStarts
  MaxCalls = 4
  Horizon = 1
  MaxStepBacks = 1
SPECIFICATION FairSpec
INVARIANTS IssuedInOrder OneGenerator
PROPERTIES ImplementsUniqueSource WaiterReturns
