SPECIFICATION ContainersSpec
CONSTANTS
  Parts = {"tree"}
  Capacities = {1, 2, 3, 4}
  Byte <- MCBytes
  MaxBytes = 5
  VectorVersions = {"vector"}
  Elem = {1, 2}
  MaxSize = 3
  StringVersions = {"stringer"}
  Char = {1, 2}
  Texts <- MCTexts
  MaxLength = 4
  DuVersions = {"friend"}
  MaxPaths = 4
  MaxDepth = 3
  FileSize <- MCFileSize
  InitArgs = {2}
  MaxRequest = 1
  Strays = {1}
  Pointers = {p1}
INVARIANTS
  FileSizeSums
CHECK_DEADLOCK FALSE
