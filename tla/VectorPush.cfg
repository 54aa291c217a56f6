SPECIFICATION VectorSpec
CONSTANTS
  VectorVersions = {"correct"}
  Elem = {1, 2}
  MaxSize = 3
INVARIANTS
  PushInBounds
CHECK_DEADLOCK FALSE
