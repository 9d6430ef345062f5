\* Every scanning command, over projects with every kind of dependency file.
CONSTANTS
  Commands <- AllCommands
  Known <- KnownAdvisories
  Published <- NewAdvisories
  Misread <- WithSuffix
  LargeGraph = 3
  Lookalikes = {"lodahs"}
  ScopedNames = {"@s/p"}
  Absent = Absent
  Unreadable = Unreadable
  None = None
SPECIFICATION Spec
INVARIANTS ExitMatchesVerdicts MalwareStopsScan EcosystemIsNotConfused DiffTellsChanges
