\* Two processes share the cache: an npm and a PyPI package and a Go module, each
\* in a harmless and a malicious version, and an npm package that passes itself
\* off as the other.
CONSTANTS
  Procs = {p1, p2}
  Names = {"app", "fork", "lib", "mod"}
  Versions = {"1.0", "2.0"}
  Ecosystem <- EcosystemOf
  Latest <- LatestOf
  StaticFindings <- Contents
  BehaviorFindings <- Behavior
  Declared <- DeclaredBy
  Advisories <- KnownMalware
  Policies <- LenientAndStrict
  MaxRequests = 2
  NoEntry = NoEntry
SPECIFICATION Spec
SYMMETRY Procs2Symmetry
INVARIANTS SecurityNeverClean FindingNeverLaundered CachedVerdictIsRejudged
PROPERTY DamageIsPermanent
CHECK_DEADLOCK FALSE
