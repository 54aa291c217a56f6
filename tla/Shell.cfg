SPECIFICATION Spec
CONSTANTS
  Pids = {p1, p2}
  NoPid = nopid
  JobSlots = 2
  ArgLimit = 3
  Texts <- MCTexts
  Lines <- MCLines
  Dirs = {"home", "tmp"}
  Home = "home"
  NoHome = "unset"
  Chars <- MCChars
  Inputs <- MCInputs
  NameChars <- MCNames
  NameMax = 2
  Env <- MCEnv
  Items = 3
  QueueLimit = 3
  MaxTaskRuns = 2
  MarshalVersions = {"zybook", "shared", "skele"}
  MaxNum = 3
  MaxMarshalRuns = 2
INVARIANTS
  JobsMatchChildren
  CommandIsLine
  ExpansionInBounds
  ExpansionExact
  WorkersCollected
PROPERTIES
  ZombiesReaped
  TaskTotal
CHECK_DEADLOCK FALSE
