\* A workflow that is to fail on warnings, and a scan that fails.
CONSTANTS
  Requests <- SmallRequests
  Registries <- Answers
  Caches <- SmallCaches
  Workers = 2
  Absent = Absent
  Unreadable = Unreadable
  Malformed = Malformed
  None = None
SPECIFICATION Spec
INVARIANT UnscannedFailsClosed
CHECK_DEADLOCK FALSE
