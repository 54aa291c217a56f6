SPECIFICATION ContainersSpec
CONSTANTS
  Parts = {"ring", "vector", "string", "tree", "pages"}
  Capacities = {1, 2, 3, 4}
  Byte <- MCBytes
  MaxBytes = 5
  VectorVersions = {"vector", "correct"}
  Elem = {1, 2}
  MaxSize = 3
  StringVersions = {"stringer", "cpp_strings"}
  Char = {1, 2}
  Texts <- MCTexts
  MaxLength = 4
  DuVersions = {"burner", "inconsistent", "friend", "du"}
  MaxPaths = 4
  MaxDepth = 3
  FileSize <- MCFileSize
  InitArgs = {1, 2, 6, 262145}
  MaxRequest = 7
  Strays = {1, 1073741824}
  Pointers = {p1, p2, p3, p4}
INVARIANTS
  TypeOK
  PagesTypeOK
  VectorInBounds
  DiskUsageExact
  NoLeak
  SearchExact
  LastMarked
PROPERTIES
  ImplementsQueue
  VectorIsList
  StaysInside
  StringIsList
SYMMETRY PointerSymmetry
CHECK_DEADLOCK FALSE
