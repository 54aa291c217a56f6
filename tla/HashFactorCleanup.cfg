SPECIFICATION PlannedSpec
CONSTANTS
  Versions = {"sc"}
  Targets = {4, 6, 8}
  GradedTargets = {6}
  WorkerCounts = {1, 2, 3}
  MaxWorkers = 3
  MaxMsg = 1
  Words = 8
  GradedWords = 2
  MaxRuns = 3
  MaxFailures = 2
  MaxInterrupts = 0
INVARIANT NamesUnlinked
CHECK_DEADLOCK FALSE
