\* Sessions of two lines with every tool, under every kind of agent policy.
CONSTANTS
  Worlds <- MCWorlds
  Dangerous <- MCPackages
  AgentPolicies <- MCPolicies
  Settings <- MCSettings
  Lines <- MCLines
  MaxLines = 2
SPECIFICATION AgentSpec
INVARIANTS SecurityFindingStopsAgent AdviceIsConsistent
PROPERTIES EveryRequestAnswered
CHECK_DEADLOCK FALSE
