\* Two connections, one local and one remote client.
CONSTANTS
  Handlers = {h1, h2}
  h1 = h1
  h2 = h2
  Clients <- MCClients
  LocalClients <- MCLocal
  Requests <- MCRequests
  Configs <- MCConfigs
  Policies <- MCPolicies
  Capacity = 2
  MaxTime = 2
SPECIFICATION Spec
INVARIANTS OnlyAuthorized RateIsBounded
PROPERTIES RefusedOnlyWhenSpent
SYMMETRY Symmetry
CHECK_DEADLOCK FALSE
