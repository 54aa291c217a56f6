SPECIFICATION Spec
CONSTANTS
  MaxThreads = 3
  OpenArgs = {0, 1, 3, 33}
  CreateFailsAt = {0}
  v1 = v1
  v2 = v2
  hash32 = hash32
  hash64 = hash64
  Values <- MCValues
  Executors <- MCExecutors
  MaxWork = 3
  MaxBatches = 2
  MaxSpurious = 1
INVARIANTS
  TypeOK
  JobsAccounted
  NoUseAfterReturn
  NoLostWakeup
  ResultsOrdered
PROPERTIES
  ImplementsService
