\* Two scripts, a background process, every mode of analysis.
CONSTANTS
  Requests <- MCRequests
  Hosts <- MCHosts
  Canaries <- MCCanaries
  EnabledRules <- MCRules
  Children = {k1}
  k1 = k1
  MaxPasses = 1
SPECIFICATION FairSpec
INVARIANTS HostRunsAreAsked WorkspacesGo
PROPERTIES ObservedIsReported IsolatedAnalysisEnds
CHECK_DEADLOCK FALSE
