SPECIFICATION NSSpec
CONSTANTS
  Versions = {"server", "scratch", "helper"}
  Conns = {1, 2}
  Fds = {4, 5}
  Limits = {4, 5}
  Says <- MCSays
  MaxSaid <- MCMaxSaid
INVARIANTS
  DescriptorsHeld
  AnswersMatchRequests
PROPERTIES
  ClosedForCause
  ClientsServed
CHECK_DEADLOCK FALSE
