\* One updater, one exporter, two importers; two buckets, the first of whose advisories no
\* parser reads; a clock of two.
CONSTANTS
  Updaters = {u1}
  Exporters = {e1}
  Importers = {i1, i2}
  AllEcosystems <- TwoBuckets
  BatchSize = 1
  RefreshAfter = 1
  Unreadable <- FirstOfNpm
  MaxTime = 2
  MaxFiles = 2
  MaxCommands = 3
  InitialDatabases <- EmptyOrLegacy
  None = None
SPECIFICATION Spec
SYMMETRY ImportersAreAlike
INVARIANTS MarkIsEarned VerifiedIsOneSealing
PROPERTIES ImportInstallsPayload
CHECK_DEADLOCK FALSE
