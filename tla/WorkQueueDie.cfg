SPECIFICATION Spec
CONSTANTS
  MaxWorkers = 2
  WorkerArgs = {1, 2}
  CapacityArgs = {1}
  StartArgs = {2}
  EndArgs = {3}
  MaxSpurious = 0
PROPERTY DieStopsWorkers
CHECK_DEADLOCK FALSE
