\* A package that the advisories call malware, asked about by an agent.
CONSTANTS
  Worlds <- MalwareWorlds
  Dangerous = {}
  AgentPolicies <- DefaultPolicies
  Settings <- DefaultSetting
  Lines <- MCLines
  MaxLines = 1
SPECIFICATION AgentSpec
INVARIANT AgentRequestCannotDowngrade
CHECK_DEADLOCK FALSE
