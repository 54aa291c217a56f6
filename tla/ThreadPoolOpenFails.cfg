SPECIFICATION Spec
CONSTANTS
  MaxThreads = 2
  OpenArgs = {0, 1, 2, 33}
  CreateFailsAt = {1}
  v1 = v1
  v2 = v2
  hash32 = hash32
  hash64 = hash64
  Values <- MCValues
  Executors <- MCExecutors
  MaxWork = 2
  MaxBatches = 0
  MaxSpurious = 1
PROPERTY OpenReturns
CHECK_DEADLOCK FALSE
