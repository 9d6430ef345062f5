\* One script on the host that leaves a process behind.
CONSTANTS
  Requests <- HeuristicRequests
  Hosts <- MCHosts
  Canaries <- MCCanaries
  EnabledRules <- MCRules
  Children = {k1}
  k1 = k1
  MaxPasses = 1
SPECIFICATION FairSpec

PROPERTIES HeuristicAnalysisEnds
CHECK_DEADLOCK FALSE
