\* Twenty-one invocations, three dependencies, two workers, every answer of the registry.
CONSTANTS
  Requests <- SmallRequests
  Registries <- Answers
  Caches <- SmallCaches
  Workers = 2
  Absent = Absent
  Unreadable = Unreadable
  Malformed = Malformed
  None = None
SPECIFICATION FairSpec
INVARIANTS GateIsComplete ExitTellsWorst
PROPERTIES FailedScanKeepsVerdict RunEnds
CHECK_DEADLOCK FALSE
