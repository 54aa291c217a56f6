SPECIFICATION Spec
CONSTANTS
  MaxWorkers = 3
  WorkerArgs <- MCWorkerArgs
  CapacityArgs <- MCCapacityArgs
  StartArgs <- MCStartArgs
  EndArgs <- MCEndArgs
  MaxSpurious = 1
INVARIANTS
  TypeOK
  QueueInOrder
  ValuesConserved
  PrintedComplete
  NoStall
PROPERTIES
  WorkFinishes
CHECK_DEADLOCK FALSE
